---- MODULE Spec2Model ----
(***************************************************************************)
(* Model of the keyword-ranking pipeline of the blog analyser:             *)
(*   keywordAnalyzer (extractHashtags, extractSmartKeywords,               *)
(*   mergeKeywordPool, getBlogRank, analyzeBlogPosts) and                  *)
(*   sheetSaver (calcGrade).                                               *)
(*                                                                         *)
(* A JavaScript string is a sequence of one-character strings.  null is    *)
(* NullRank where a number is expected and NullStr where a string is.      *)
(* An awaited network call is split at the await: the request is in flight *)
(* until a response or a failure action delivers its outcome, and that     *)
(* action runs the code up to the next await.                              *)
(***************************************************************************)
EXTENDS Integers, Sequences, FiniteSets, TLC

\* null of `number | null`: no number the code computes is negative
NullRank == -1

\* null (or undefined) of `string | null`: no string of the model holds the
\* character "null"
NullStr == <<"null">>

Range(s) == { s[i] : i \in 1..Len(s) }

Min(a, b) == IF a <= b THEN a ELSE b

\* s.includes(x) on an array
Includes(s, x) == \E i \in 1..Len(s) : s[i] = x

\* [...new Set(s)]: first occurrences, in order
RECURSIVE Dedupe(_)
Dedupe(s) ==
    IF s = <<>> THEN <<>>
    ELSE LET init == Dedupe(SubSeq(s, 1, Len(s) - 1))
             x    == s[Len(s)]
         IN  IF Includes(init, x) THEN init ELSE Append(init, x)

\* s.filter(P)
Filter(s, P(_)) ==
    LET F[i \in 0..Len(s)] ==
            IF i = 0 THEN <<>>
            ELSE IF P(s[i]) THEN Append(F[i - 1], s[i]) ELSE F[i - 1]
    IN  F[Len(s)]

\* a.join(sep) on an array of strings
RECURSIVE Join(_, _)
Join(a, sep) ==
    IF a = <<>> THEN <<>>
    ELSE IF Len(a) = 1 THEN a[1]
    ELSE a[1] \o sep \o Join(Tail(a), sep)

\* Array.prototype.sort(cmp) is stable (insertion of each element after every
\* element it does not have to precede): Before(x, y) is cmp(x, y) < 0.
InsertSorted(sorted, x, Before(_, _)) ==
    LET first == { j \in 1..Len(sorted) : Before(x, sorted[j]) }
        pos   == IF first = {} THEN Len(sorted) + 1
                 ELSE CHOOSE j \in first : \A k \in first : j <= k
    IN  SubSeq(sorted, 1, pos - 1) \o <<x>> \o SubSeq(sorted, pos, Len(sorted))

StableSort(s, Before(_, _)) ==
    LET S[n \in 0..Len(s)] ==
            IF n = 0 THEN <<>> ELSE InsertSorted(S[n - 1], s[n], Before)
    IN  S[Len(s)]

(***************************************************************************)
(* Characters.  A Hangul syllable is written in revised romanisation, one   *)
(* string per syllable ("ki","wo","deu" is the three-character word        *)
(* ki-wo-deu, "reul" the object particle); Latin letters and digits are    *)
(* the one-character strings of AlphaNum, disjoint from the syllables.     *)
(***************************************************************************)
STOPWORDS ==
    { <<"iss","seup","ni","da">>, <<"hap","ni","da">>, <<"ha","neun">>, <<"iss","neun">>,
      <<"i","reon">>, <<"geu","reon">>, <<"jeo","reon">>,
      <<"ttae","mun">>, <<"i","hu">>, <<"i","jeon">>, <<"tong","hae">>, <<"wi","hae">>,
      <<"dae","han">>, <<"gwan","ryeon">>, <<"i","beon">>,
      <<"o","neul">>, <<"nae","il">>, <<"eo","je">>, <<"ha","ji","man">>,
      <<"geu","ri","go">>, <<"tto","han">>, <<"tta","ra">>,
      <<"jeong","do">>, <<"gyeong","u">>, <<"bu","bun">>, <<"nae","yong">>, <<"gat","eun">>,
      <<"da","reun">>, <<"mo","deun">> }

PARTICLES ==
    << <<"e","seo">>, <<"eu","ro">>, <<"bu","teo">>, <<"kka","ji">>, <<"bo","da">>,
       <<"cheo","reom">>, <<"ha","go">>,
       <<"eun">>, <<"neun">>, <<"i">>, <<"ga">>, <<"eul">>, <<"reul">>, <<"ui">>,
       <<"e">>, <<"wa">>, <<"gwa">>, <<"do">>, <<"man">>, <<"ro">>, <<"na">> >>

\* The syllables of [Hangul] that occur in the model's texts: those of the
\* stopwords and particles, and those of the words ki-wo-deu, mat-jip,
\* gang-nam, bom, ot, kkot.
Hangul ==
    { "iss", "seup", "ni", "da", "hap", "ha", "neun", "i", "reon", "geu", "jeo",
      "ttae", "mun", "hu", "jeon", "tong", "hae", "wi", "dae", "han", "gwan",
      "ryeon", "beon", "o", "neul", "nae", "il", "eo", "je", "ji", "man", "ri",
      "go", "tto", "tta", "ra", "jeong", "do", "gyeong", "u", "bu", "bun", "yong",
      "gat", "eun", "reun", "mo", "deun",
      "e", "seo", "eu", "ro", "teo", "kka", "bo", "cheo", "reom", "ga", "eul",
      "reul", "ui", "wa", "gwa", "na",
      "ki", "wo", "deu", "mat", "jip", "gang", "nam", "bom", "ot", "kkot" }

\* [a-zA-Z0-9] as far as the model's texts use it
AlphaNum == { "x", "y", "7" }

Whitespace == { " " }

\* [Hangul a-zA-Z0-9_]
IsTagChar(c) == c \in Hangul \cup AlphaNum \cup {"_"}

(***************************************************************************)
(* 1. extractHashtags                                                      *)
(***************************************************************************)
\* The end of the longest run of characters satisfying P that starts at i
\* (i - 1 when text[i] does not satisfy P).
RunEnd(text, i, P(_)) ==
    LET R[j \in i..Len(text) + 1] ==
            IF j <= Len(text) /\ P(text[j]) THEN R[j + 1] ELSE j - 1
    IN  R[i]

\* content.match(/#([Hangul a-zA-Z0-9_]+)/g) ?? []
RECURSIVE HashtagMatches(_, _)
HashtagMatches(text, i) ==
    IF i > Len(text) THEN <<>>
    ELSE IF text[i] = "#" /\ RunEnd(text, i + 1, IsTagChar) >= i + 1
         THEN LET e == RunEnd(text, i + 1, IsTagChar)
              IN  <<SubSeq(text, i, e)>> \o HashtagMatches(text, e + 1)
         ELSE HashtagMatches(text, i + 1)

\* t.replace('#', ''): the first '#' of t is removed
RECURSIVE RemoveFirstHash(_)
RemoveFirstHash(t) ==
    IF t = <<>> THEN <<>>
    ELSE IF Head(t) = "#" THEN Tail(t)
    ELSE <<Head(t)>> \o RemoveFirstHash(Tail(t))

\* Mutant of extractHashtags: the Set is left out, every match is kept.
extractHashtagsEveryMatch(content) ==
    LET matches == HashtagMatches(content, 1)
    IN  [i \in 1..Len(matches) |-> RemoveFirstHash(matches[i])]

extractHashtags(content) ==
    LET matches == HashtagMatches(content, 1)
    IN  Dedupe([i \in 1..Len(matches) |-> RemoveFirstHash(matches[i])])

(***************************************************************************)
(* 2. stripParticles, extractNouns                                         *)
(***************************************************************************)
EndsWith(s, p) ==
    Len(p) <= Len(s) /\ SubSeq(s, Len(s) - Len(p) + 1, Len(s)) = p

\* Mutant of StripFrom: a particle is taken off whatever it leaves.
RECURSIVE StripFromAnyRest(_, _)
StripFromAnyRest(word, k) ==
    IF k > Len(PARTICLES) THEN word
    ELSE LET p        == PARTICLES[k]
             stripped == SubSeq(word, 1, Len(word) - Len(p))
         IN  IF EndsWith(word, p) /\ Len(word) > Len(p)
             THEN stripped
             ELSE StripFromAnyRest(word, k + 1)

RECURSIVE StripFrom(_, _)
StripFrom(word, k) ==
    IF k > Len(PARTICLES) THEN word
    ELSE LET p        == PARTICLES[k]
             stripped == SubSeq(word, 1, Len(word) - Len(p))
         IN  IF EndsWith(word, p) /\ Len(word) > Len(p) /\ Len(stripped) >= 2
             THEN stripped
             ELSE StripFrom(word, k + 1)

stripParticles(word) == StripFrom(word, 1)

IsHangul(c) == c \in Hangul

\* text.match(/[Hangul]{2,}/g) ?? []
RECURSIVE HangulWords(_, _)
HangulWords(text, i) ==
    IF i > Len(text) THEN <<>>
    ELSE LET e == RunEnd(text, i, IsHangul)
         IN  IF e >= i + 1 THEN <<SubSeq(text, i, e)>> \o HangulWords(text, e + 1)
             ELSE IF e = i THEN HangulWords(text, i + 1)
             ELSE HangulWords(text, i + 1)

\* A Map<string, number> is the sequence of its entries <<key, value>> in
\* insertion order.
MapHas(m, k) == \E i \in 1..Len(m) : m[i][1] = k

\* m.get(k) ?? 0
MapGet(m, k) ==
    IF MapHas(m, k) THEN (CHOOSE e \in Range(m) : e[1] = k)[2] ELSE 0

MapSet(m, k, v) ==
    IF MapHas(m, k)
    THEN [i \in 1..Len(m) |-> IF m[i][1] = k THEN <<k, v>> ELSE m[i]]
    ELSE Append(m, <<k, v>>)

RECURSIVE CountNouns(_, _)
CountNouns(words, freq) ==
    IF words = <<>> THEN freq
    ELSE LET word == stripParticles(Head(words))
         IN  IF Len(word) < 2 \/ word \in STOPWORDS
             THEN CountNouns(Tail(words), freq)
             ELSE CountNouns(Tail(words),
                             MapSet(freq, word, MapGet(freq, word) + 1))

extractNouns(text) == CountNouns(HangulWords(text, 1), <<>>)

(***************************************************************************)
(* 3. extractTitleNgrams                                                   *)
(***************************************************************************)
\* title.replace(/[^\s Hangul a-zA-Z0-9]/g, ' ')
Sanitize(title) ==
    [i \in 1..Len(title) |->
        IF title[i] \in Whitespace \cup Hangul \cup AlphaNum THEN title[i] ELSE " "]

IsSpace(c) == c \in Whitespace

\* s.split(/\s+/): the pieces between the whitespace runs, empty pieces at the
\* ends included
RECURSIVE SplitWs(_, _, _)
SplitWs(s, i, piece) ==
    IF i > Len(s) THEN <<piece>>
    ELSE IF IsSpace(s[i])
         THEN <<piece>> \o SplitWs(s, RunEnd(s, i, IsSpace) + 1, <<>>)
         ELSE SplitWs(s, i + 1, Append(piece, s[i]))

LongEnough(t) == Len(t) >= 2

RECURSIVE Ngrams(_, _)
Ngrams(tokens, i) ==
    IF i > Len(tokens) - 1 THEN <<>>
    ELSE <<tokens[i] \o <<" ">> \o tokens[i + 1]>>
         \o (IF i < Len(tokens) - 1
             THEN <<tokens[i] \o <<" ">> \o tokens[i + 1] \o <<" ">> \o tokens[i + 2]>>
             ELSE <<>>)
         \o Ngrams(tokens, i + 1)

extractTitleNgrams(title) ==
    LET pieces == SplitWs(Sanitize(title), 1, <<>>)
        tokens == Filter([i \in 1..Len(pieces) |-> stripParticles(pieces[i])], LongEnough)
    IN  Ngrams(tokens, 1)

(***************************************************************************)
(* 4. extractSmartKeywords (at most 5)                                     *)
(***************************************************************************)
SMART_CAP == 5

\* Mutant of FillFrom: the loop stops one entry late.
RECURSIVE FillFromPastCap(_, _)
FillFromPastCap(result, items) ==
    IF items = <<>> \/ Len(result) > SMART_CAP THEN result
    ELSE FillFromPastCap(IF Includes(result, Head(items)) THEN result
                         ELSE Append(result, Head(items)),
                         Tail(items))

\* for (const x of items) { if (result.length >= 5) break;
\*                          if (!result.includes(x)) result.push(x); }
RECURSIVE FillFrom(_, _)
FillFrom(result, items) ==
    IF items = <<>> \/ Len(result) >= SMART_CAP THEN result
    ELSE FillFrom(IF Includes(result, Head(items)) THEN result
                  ELSE Append(result, Head(items)),
                  Tail(items))

\* Mutant of HigherScore: of two entries of equal score the later one comes
\* first.
HigherOrEqualScore(a, b) == a[2] >= b[2]

\* scored.sort((a, b) => b[1] - a[1])
HigherScore(a, b) == a[2] > b[2]

ScoredNouns(title, content) ==
    LET titleNouns   == extractNouns(title)
        contentNouns == extractNouns(content)
        fromTitle    == [i \in 1..Len(titleNouns) |->
                            LET word        == titleNouns[i][1]
                                titleFreq   == titleNouns[i][2]
                                contentFreq == MapGet(contentNouns, word)
                            IN  <<word, titleFreq * 3 + contentFreq>>]
        OnlyContent(e) == ~MapHas(titleNouns, e[1]) /\ e[2] >= 2
    IN  StableSort(fromTitle \o Filter(contentNouns, OnlyContent), HigherScore)

\* Mutant of extractSmartKeywords: the nouns are taken before the hashtags.
extractSmartKeywordsNounsFirst(title, content, hashtags) ==
    LET scored  == ScoredNouns(title, content)
        byNouns == FillFrom(<<>>, [i \in 1..Len(scored) |-> scored[i][1]])
    IN  FillFrom(FillFrom(byNouns, hashtags), extractTitleNgrams(title))

extractSmartKeywords(title, content, hashtags) ==
    LET byTags  == FillFrom(<<>>, hashtags)
        scored  == ScoredNouns(title, content)
        byNouns == FillFrom(byTags, [i \in 1..Len(scored) |-> scored[i][1]])
    IN  IF Len(byTags) >= SMART_CAP THEN byTags
        ELSE IF Len(byNouns) >= SMART_CAP THEN byNouns
        ELSE FillFrom(byNouns, extractTitleNgrams(title))

(***************************************************************************)
(* 5. mergeKeywordPool                                                     *)
(***************************************************************************)
\* Mutant of mergeKeywordPool: the smart keywords are put in front.
mergeKeywordPoolSmartFirst(hashtags, smartKeywords) == Dedupe(smartKeywords \o hashtags)

\* [...new Set([...hashtags, ...smartKeywords])]
mergeKeywordPool(hashtags, smartKeywords) == Dedupe(hashtags \o smartKeywords)

(***************************************************************************)
(* sheetSaver.calcGrade                                                    *)
(***************************************************************************)
\* Mutant of calcGrade: the upper ends of the intervals are left out.
calcGradeOpenBounds(rank) ==
    IF rank = NullRank THEN "minochul"
    ELSE IF rank = 1 THEN "S"
    ELSE IF rank < 5 THEN "A"
    ELSE IF rank < 10 THEN "B"
    ELSE IF rank < 30 THEN "C"
    ELSE "minochul"

calcGrade(rank) ==
    IF rank = NullRank THEN "minochul"
    ELSE IF rank = 1 THEN "S"
    ELSE IF rank <= 5 THEN "A"
    ELSE IF rank <= 10 THEN "B"
    ELSE IF rank <= 30 THEN "C"
    ELSE "minochul"

(***************************************************************************)
(* 6. getBlogRank                                                          *)
(*                                                                         *)
(* A link is a sequence of segments; the host "blog.naver.com/" is one     *)
(* segment, and ToLower gives the lower-case form of a segment.            *)
(***************************************************************************)
MAX_RESULTS == 100
PAGE_SIZE == 10

ToLower(c) ==
    CASE c = "BLOG.NAVER.COM/" -> "blog.naver.com/"
      [] c = "K" -> "k"
      [] c = "Z" -> "z"
      [] OTHER -> c

\* s.toLowerCase()
toLowerCase(s) == [i \in 1..Len(s) |-> ToLower(s[i])]

\* s.includes(t) on strings
StrIncludes(s, t) ==
    \E i \in 1..(Len(s) - Len(t) + 1) : SubSeq(s, i, i + Len(t) - 1) = t

\* `blog.naver.com/${blogId}`
UrlPattern(id) == <<"blog.naver.com/">> \o id

\* x ?? ''
OrEmpty(x) == IF x = NullStr THEN <<>> ELSE x

\* Mutant of ItemMatches: the comparison keeps the case of the link.
ItemMatchesCaseSensitive(item, id) ==
    StrIncludes(OrEmpty(item.link) \o OrEmpty(item.bloggerlink), UrlPattern(id))

\* (item.link ?? '') + (item.bloggerlink ?? '') contains the pattern,
\* both in lower case
ItemMatches(item, id) ==
    LET link == OrEmpty(item.link) \o OrEmpty(item.bloggerlink)
    IN  StrIncludes(toLowerCase(link), toLowerCase(UrlPattern(id)))

\* for (const item of items) { rank++; if (match) return rank; }
\* The result is <<found, rank>>: the rank returned, or the counter after the
\* last item.
RECURSIVE ScanItems(_, _, _)
ScanItems(items, rank, id) ==
    IF items = <<>> THEN <<FALSE, rank>>
    ELSE IF ItemMatches(Head(items), id) THEN <<TRUE, rank + 1>>
    ELSE ScanItems(Tail(items), rank + 1, id)

\* axios.get('/naver-search/v1/search/blog.json', {params: ...})
SearchRequest(keyword, start) ==
    [query |-> keyword, display |-> PAGE_SIZE, start |-> start]

\* The state of one getBlogRank invocation when it is entered: rank = 0 and the
\* loop at start = 1, nothing requested or received yet.
NewProbe(keyword, id) ==
    [keyword |-> keyword, blogId |-> id, start |-> 1, rank |-> 0,
     reqs |-> <<>>, pages |-> <<>>, failed |-> FALSE, threw |-> FALSE,
     done |-> FALSE, ret |-> NullRank]

\* Mutant of SendPage: the request of the following page is sent along, before
\* the response to the current one.
SendPagePrefetch(p) ==
    [p EXCEPT !.reqs = @ \o << SearchRequest(p.keyword, p.start),
                               SearchRequest(p.keyword, p.start + PAGE_SIZE) >>]

\* The loop reaches axios.get: the request for the current start is sent.
SendPage(p) ==
    [p EXCEPT !.reqs = Append(@, SearchRequest(p.keyword, p.start))]

\* The loop's step `start += PAGE_SIZE` and its test `start <= MAX_RESULTS`
NextStart(start) == start + PAGE_SIZE

\* Mutant of MorePages: one page too many is requested.
MorePagesOneTooMany(start) == start <= MAX_RESULTS + PAGE_SIZE

MorePages(start) == start <= MAX_RESULTS

\* Mutant of ShortPage: only an empty page ends the scan.
ShortPageEmptyOnly(items) == Len(items) = 0

\* The page is exhausted: if (items.length < PAGE_SIZE) break;
ShortPage(items) == Len(items) < PAGE_SIZE

\* The response of the request in flight arrives: the body of the loop from
\* the assignment of items to the next axios.get or to a return.
OnPage(p, items) ==
    LET scan == ScanItems(items, p.rank, p.blogId)
        got  == [p EXCEPT !.pages = Append(@, items), !.rank = scan[2]]
    IN  IF scan[1] THEN [got EXCEPT !.done = TRUE, !.ret = scan[2]]
        ELSE IF ShortPage(items) THEN [got EXCEPT !.done = TRUE, !.ret = NullRank]
        ELSE IF MorePages(NextStart(p.start))
             THEN SendPage([got EXCEPT !.start = NextStart(p.start)])
        ELSE [got EXCEPT !.start = NextStart(p.start), !.done = TRUE, !.ret = NullRank]

\* Mutant of OnFailure: the failure is thrown on to the caller.
OnFailureRethrow(p) ==
    [p EXCEPT !.failed = TRUE, !.threw = TRUE, !.done = TRUE, !.ret = NullRank]

\* The request in flight fails (transport, authentication, timeout, a body
\* without data): the catch block returns null and nothing is thrown to the
\* caller.
OnFailure(p) ==
    [p EXCEPT !.failed = TRUE, !.threw = FALSE, !.done = TRUE, !.ret = NullRank]

(***************************************************************************)
(* The search API's answers                                                *)
(***************************************************************************)
TargetItem ==
    [link |-> <<"https://", "blog.naver.com/", "k", "/", "1">>,
     bloggerlink |-> <<"blog.naver.com/", "k">>]

UpperCaseItem ==
    [link |-> <<"https://", "BLOG.NAVER.COM/", "K", "/", "1">>,
     bloggerlink |-> NullStr]

BloggerLinkItem ==
    [link |-> <<"https://", "post.naver.com/", "1">>,
     bloggerlink |-> <<"blog.naver.com/", "k">>]

OtherBlogItem ==
    [link |-> <<"https://", "blog.naver.com/", "z", "/", "1">>,
     bloggerlink |-> <<"blog.naver.com/", "z">>]

NoBloggerItem ==
    [link |-> <<"https://", "post.naver.com/", "1">>, bloggerlink |-> NullStr]

NoLinkItem == [link |-> NullStr, bloggerlink |-> NullStr]

HitItems == { TargetItem, UpperCaseItem, BloggerLinkItem }

MissItems == << OtherBlogItem, NoBloggerItem, NoLinkItem >>

\* A page of n items with the item `hit` at the positions of M and items of
\* other blogs elsewhere.
MkPage(n, M, hit) ==
    [i \in 1..n |-> IF i \in M THEN hit ELSE MissItems[(i % Len(MissItems)) + 1]]

\* At most MaxHits items of a page are the target's.
MaxHits == 2

RankPages ==
    { MkPage(n, M, hit) :
        n \in 0..PAGE_SIZE,
        M \in { S \in SUBSET (1..PAGE_SIZE) : Cardinality(S) <= MaxHits },
        hit \in HitItems }

(***************************************************************************)
(* 9. analyzeBlogPosts: selection                                          *)
(***************************************************************************)
\* Mutant of HasRank: entries without a rank are not filtered out.
HasRankAlways(r) == TRUE

HasRank(r) == r.rank # NullRank

\* Mutant of LowerRank: an equal rank counts as lower, so a later keyword
\* overtakes an earlier one of the same rank.
LowerOrEqualRank(a, b) == a.rank <= b.rank

\* (a, b) => a.rank - b.rank
LowerRank(a, b) == a.rank < b.rank

\* ranks.filter((r) => r.rank !== null).sort((a, b) => a.rank - b.rank)
Ranked(rs) == StableSort(Filter(rs, HasRank), LowerRank)

RankEntry(keyword, rank) == [keyword |-> keyword, rank |-> rank]

\* null of `RankEntry | null`
NoEntry == RankEntry(NullStr, NullRank)

\* ranked[0] ?? null
Best(ranked) == IF ranked = <<>> THEN NoEntry ELSE ranked[1]

\* best?.keyword ?? null, best?.rank ?? null
BestKeyword(best) == IF best = NoEntry THEN NullStr ELSE best.keyword

BestRank(best) == IF best = NoEntry THEN NullRank ELSE best.rank

GOOD_RANK == 10

\* Mutant of OtherGoodKeywords: rank 10 itself is left out.
OtherGoodKeywordsBelowTen(ranked, bestKeyword) ==
    LET Good(r) == r.keyword # bestKeyword /\ r.rank < 10
    IN  Filter(ranked, Good)

\* ranked.filter((r) => r.keyword !== bestKeyword && r.rank <= 10)
OtherGoodKeywords(ranked, bestKeyword) ==
    LET Good(r) == r.keyword # bestKeyword /\ r.rank <= GOOD_RANK
    IN  Filter(ranked, Good)

\* Mutant of FinalKeyword: the keyword is left open.
FinalKeywordNone(bestKeyword) == NullStr

\* const finalKeyword = bestKeyword
FinalKeyword(bestKeyword) == bestKeyword

\* Mutant of PushRank: the entry is put in front.
PushRankFront(rs, keyword, rank) == <<RankEntry(keyword, rank)>> \o rs

\* ranks.push({ keyword, rank })
PushRank(rs, keyword, rank) == Append(rs, RankEntry(keyword, rank))

\* A message handed to onLog.
Msg(kind, arg) == [kind |-> kind, arg |-> arg]

(***************************************************************************)
(* State                                                                   *)
(***************************************************************************)
VARIABLES
    args,           \* the arguments of the entry call
    pc,             \* where the entry call stands
    hashtags,       \* analyzeBlogPosts: const hashtags
    smartKeywords,  \* analyzeBlogPosts: const smartKeywords
    pool,           \* analyzeBlogPosts: const pool
    titleRank,      \* analyzeBlogPosts: const titleRank
    ranks,          \* analyzeBlogPosts: const ranks (pushed to)
    result,         \* the AnalysisFinalResult returned, NoResult before
    probe,          \* the current (or last) getBlogRank invocation, NoProbe before
    inflight,       \* the search request awaiting its response, or NoRequest
    log,            \* the messages handed to onLog, in order
    call,           \* a function application: its argument and result
    config,         \* App: the configuration loaded by useConfig, NoConfig before
    isAnalyzing,    \* App: const [isAnalyzing, setIsAnalyzing]
    status,         \* App: currentAnalysis.status
    analysisResults,\* App: const [analysisResults, setAnalysisResults]
    store,          \* localStorage under STORAGE_KEY
    sheet,          \* the analysis rows posted to the Apps Script web app
    handler,        \* App: where handleStart stands, and its locals
    run,            \* App: where runAnalysis stands, and its locals
    history,        \* what the App did so far: runs, saves, pauses, in order
    rendered,       \* App: the isAnalyzing of the last render, which the
                    \* handleStart bound to the button closes over
    second,         \* App: a second invocation of handleStart, and its locals
    sheetPosts      \* the calls of saveToGoogleSheet followed one by one

appVars == <<config, isAnalyzing, status, analysisResults, store, sheet, handler, run,
             history, rendered, second, sheetPosts>>

vars == <<args, pc, hashtags, smartKeywords, pool, titleRank, ranks, result,
          probe, inflight, log, call, appVars>>

NoCall == [fn |-> "none", arg |-> NullStr, done |-> TRUE, ret |-> NullStr]

NoResult == [pending |-> TRUE]

NoProbe == [NewProbe(NullStr, NullStr) EXCEPT !.start = 0]

NoRequest == [query |-> NullStr, display |-> 0, start |-> 0]

Last(s) == s[Len(s)]

\* const [config, setConfig] = useState<Config | null>(null)
NoConfig == [loaded |-> FALSE, googleAppsScriptUrl |-> NullStr]

\* localStorage.getItem(STORAGE_KEY) === null
AbsentStore == [raw |-> "absent", value |-> <<>>]

NoHandler == [pc |-> "none", input |-> NullStr, posts |-> <<>>, i |-> 0]

NoRun == [pc |-> "none", url |-> NullStr, blogId |-> NullStr, title |-> NullStr,
          current |-> 0, total |-> 0]

NoSecond == [pc |-> "none", url |-> NullStr]

\* `[rank lookup error] "${keyword}": ...` of the catch block
ErrorLog(p) == IF p.failed /\ ~p.threw THEN <<Msg("rankError", p.keyword)>> ELSE <<>>

(***************************************************************************)
(* getBlogRank called on its own                                           *)
(***************************************************************************)
CallGetBlogRank ==
    /\ pc = "call"
    /\ probe' = SendPage(NewProbe(args.keyword, args.blogId))
    /\ inflight' = Last(probe'.reqs)
    /\ pc' = "rank"
    /\ UNCHANGED <<appVars, args, hashtags, smartKeywords, pool, titleRank, ranks, result, log, call>>

(***************************************************************************)
(* analyzeBlogPosts                                                        *)
(***************************************************************************)
\* Lines 302-314: the preprocessing and the title probe up to its first
\* request, for the arguments a and with lg logged so far.
EnterAnalysis(a, lg) ==
    /\ hashtags' = extractHashtags(a.content)
    /\ smartKeywords' = extractSmartKeywords(a.title, a.content, hashtags')
    /\ pool' = mergeKeywordPool(hashtags', smartKeywords')
    /\ log' = lg \o << Msg("hashtags", hashtags'), Msg("smartKeywords", smartKeywords'),
                       Msg("pool", Len(pool')) >>
    /\ probe' = SendPage(NewProbe(a.title, a.blogId))
    /\ inflight' = Last(probe'.reqs)
    /\ pc' = "title"

StartAnalysis ==
    /\ pc = "start"
    /\ EnterAnalysis(args, log)
    /\ UNCHANGED <<appVars, args, titleRank, ranks, result, call>>

\* Lines 315-321
TitleLog(rank) ==
    IF rank = 1 THEN Msg("titleFirst", rank)
    ELSE IF rank # NullRank THEN Msg("titleRank", rank)
    ELSE Msg("titleNotFound", NullRank)

\* Lines 332-336
RankLog(keyword, rank) ==
    IF rank # NullRank THEN Msg("rank", RankEntry(keyword, rank))
    ELSE Msg("notFound", keyword)

\* Mutant of Selection: the final-keyword message is logged before the
\* messages on the best and the other good keywords.
SelectionFinalFirst(tr, rs) ==
    LET ranked      == Ranked(rs)
        best        == Best(ranked)
        bestKeyword == BestKeyword(best)
        bestRank    == BestRank(best)
        others      == OtherGoodKeywords(ranked, bestKeyword)
        final       == FinalKeyword(bestKeyword)
    IN  [ log |->
            <<Msg("final", final)>>
            \o (IF bestKeyword # NullStr /\ bestKeyword # <<>>
                THEN <<Msg("best", RankEntry(bestKeyword, bestRank))>> ELSE <<>>)
            \o (IF Len(others) > 0 THEN <<Msg("otherGood", others)>> ELSE <<>>),
          result |->
            [ hashtags |-> hashtags, smartKeywords |-> smartKeywords, pool |-> pool,
              titleRank |-> tr, ranks |-> rs,
              bestKeyword |-> bestKeyword, bestRank |-> bestRank,
              otherGoodKeywords |-> others, finalKeyword |-> final,
              searchVolume |-> NullRank ] ]

\* Mutant of Selection: the result carries a search volume for the final
\* keyword.
SelectionEnriched(tr, rs) ==
    LET ranked      == Ranked(rs)
        best        == Best(ranked)
        bestKeyword == BestKeyword(best)
        bestRank    == BestRank(best)
        others      == OtherGoodKeywords(ranked, bestKeyword)
        final       == FinalKeyword(bestKeyword)
    IN  [ log |->
            (IF bestKeyword # NullStr /\ bestKeyword # <<>>
             THEN <<Msg("best", RankEntry(bestKeyword, bestRank))>> ELSE <<>>)
            \o (IF Len(others) > 0 THEN <<Msg("otherGood", others)>> ELSE <<>>)
            \o <<Msg("final", final)>>,
          result |->
            [ hashtags |-> hashtags, smartKeywords |-> smartKeywords, pool |-> pool,
              titleRank |-> tr, ranks |-> rs,
              bestKeyword |-> bestKeyword, bestRank |-> bestRank,
              otherGoodKeywords |-> others, finalKeyword |-> final,
              searchVolume |-> IF final = NullStr THEN NullRank ELSE 0 ] ]

\* Lines 343-377: selection, the closing messages and the returned object.
Selection(tr, rs) ==
    LET ranked      == Ranked(rs)
        best        == Best(ranked)
        bestKeyword == BestKeyword(best)
        bestRank    == BestRank(best)
        others      == OtherGoodKeywords(ranked, bestKeyword)
        final       == FinalKeyword(bestKeyword)
    IN  [ log |->
            (IF bestKeyword # NullStr /\ bestKeyword # <<>>
             THEN <<Msg("best", RankEntry(bestKeyword, bestRank))>> ELSE <<>>)
            \o (IF Len(others) > 0 THEN <<Msg("otherGood", others)>> ELSE <<>>)
            \o <<Msg("final", final)>>,
          result |->
            [ hashtags |-> hashtags, smartKeywords |-> smartKeywords, pool |-> pool,
              titleRank |-> tr, ranks |-> rs,
              bestKeyword |-> bestKeyword, bestRank |-> bestRank,
              otherGoodKeywords |-> others, finalKeyword |-> final,
              searchVolume |-> NullRank ] ]

\* The loop `for (const keyword of pool)` with rs pushed so far: either the
\* next keyword's probe is started (up to its first request), or the loop is
\* over and the function runs to its return.
PoolLoop(p, tr, rs, lg) ==
    /\ titleRank' = tr
    /\ ranks' = rs
    /\ IF Len(rs) < Len(pool)
       THEN LET keyword == pool[Len(rs) + 1]
            IN  /\ log' = lg \o <<Msg("querying", keyword)>>
                /\ probe' = SendPage(NewProbe(keyword, args.blogId))
                /\ inflight' = Last(probe'.reqs)
                /\ pc' = "pool"
                /\ result' = result
       ELSE LET sel == Selection(tr, rs)
            IN  /\ log' = lg \o sel.log
                /\ probe' = p
                /\ inflight' = NoRequest
                /\ pc' = "done"
                /\ result' = sel.result
    /\ UNCHANGED <<appVars, args, hashtags, smartKeywords, pool, call>>

\* getBlogRank settles with p: the code that awaited it goes on.
Settle(p, lg) ==
    IF p.threw
    THEN \* neither getBlogRank's caller nor analyzeBlogPosts catches: the
         \* rejection leaves the entry call
         /\ pc' = "thrown"
         /\ probe' = p
         /\ inflight' = NoRequest
         /\ log' = lg
         /\ UNCHANGED <<appVars, args, hashtags, smartKeywords, pool, titleRank, ranks, result, call>>
    ELSE CASE pc = "rank" ->
                /\ pc' = "returned"
                /\ probe' = p
                /\ inflight' = NoRequest
                /\ log' = lg
                /\ UNCHANGED <<appVars, args, hashtags, smartKeywords, pool, titleRank, ranks,
                               result, call>>
           [] pc = "title" ->
                PoolLoop(p, p.ret, <<>>,
                         lg \o <<TitleLog(p.ret), Msg("surveyStart", NullStr)>>)
           [] pc = "pool" ->
                PoolLoop(p, titleRank, PushRank(ranks, p.keyword, p.ret),
                         lg \o <<RankLog(p.keyword, p.ret)>>)

\* The outcome p of the request in flight: the invocation goes on to its next
\* request, or settles.
Resume(p) ==
    IF ~p.done
    THEN /\ probe' = p
         /\ inflight' = Last(p.reqs)
         /\ UNCHANGED <<appVars, args, pc, hashtags, smartKeywords, pool, titleRank, ranks,
                        result, log, call>>
    ELSE Settle(p, log \o ErrorLog(p))

\* The search API answers the request in flight with a page of `pages`.
Respond(pages) ==
    /\ inflight # NoRequest
    /\ \E items \in pages : Resume(OnPage(probe, items))

\* The request in flight fails.
Fail ==
    /\ inflight # NoRequest
    /\ Resume(OnFailure(probe))

(***************************************************************************)
(* Specification SpecRank: one call of getBlogRank                         *)
(***************************************************************************)
Keywords == { <<"mat", "jip">> }

BlogIds == { <<"k">>, <<"K">> }

\* No analysis has begun.
NoAnalysis ==
    /\ hashtags = <<>>
    /\ smartKeywords = <<>>
    /\ pool = <<>>
    /\ titleRank = NullRank
    /\ ranks = <<>>
    /\ result = NoResult
    /\ probe = NoProbe
    /\ inflight = NoRequest
    /\ log = <<>>

\* The App is not part of the run.
NoApp ==
    /\ config = NoConfig
    /\ isAnalyzing = FALSE
    /\ status = "idle"
    /\ analysisResults = <<>>
    /\ store = AbsentStore
    /\ sheet = <<>>
    /\ handler = NoHandler
    /\ run = NoRun
    /\ history = <<>>
    /\ rendered = FALSE
    /\ second = NoSecond
    /\ sheetPosts = <<>>

Idle == NoAnalysis /\ NoApp

InitRank ==
    /\ args \in [keyword : Keywords, blogId : BlogIds]
    /\ pc = "call"
    /\ call = NoCall
    /\ Idle

RespondRank == Respond(RankPages)

NextRank == CallGetBlogRank \/ RespondRank \/ Fail

SpecRank == InitRank /\ [][NextRank]_vars

(***************************************************************************)
(* Specification Spec: one call of analyzeBlogPosts                        *)
(***************************************************************************)
\* The posts analysed: a title without a noun and an empty body (empty
\* pool), a one-noun title with a hashtag in the body, a two-noun title.
Posts ==
    { [title |-> <<"x">>, content |-> <<>>],
      [title |-> <<"mat", "jip">>,
       content |-> <<"#", "bom", " ", "mat", "jip", "eul">>],
      [title |-> <<"gang", "nam", " ", "mat", "jip">>, content |-> <<"o", "neul">>] }

\* The search API lists the target blog among the first MaxHitRank results of
\* a keyword or not at all.
MaxHitRank == 11

\* The length of a last page that is not full.
ShortLen == 3

PoolPages(start) ==
    { MkPage(n, M, TargetItem) :
        n \in {ShortLen, PAGE_SIZE},
        M \in {{}} \cup { {j} : j \in { i \in 1..PAGE_SIZE : start - 1 + i <= MaxHitRank } } }

Init ==
    /\ args \in { [title |-> p.title, content |-> p.content, blogId |-> <<"k">>] : p \in Posts }
    /\ pc = "start"
    /\ call = NoCall
    /\ Idle

RespondPool == Respond(PoolPages(inflight.start))

Next == StartAnalysis \/ RespondPool \/ Fail

Spec == Init /\ [][Next]_vars

(***************************************************************************)
(* Specification SpecGrade: calcGrade applied to a best rank               *)
(***************************************************************************)
\* The largest rank handed to calcGrade.
MaxRank == 120

Pending(fn, arg) == [fn |-> fn, arg |-> arg, done |-> FALSE, ret |-> NullStr]

InitGrade ==
    /\ call \in { Pending("calcGrade", r) : r \in {NullRank} \cup 1..MaxRank }
    /\ args = NullStr
    /\ pc = "none"
    /\ Idle

ApplyCalcGrade ==
    /\ call.fn = "calcGrade"
    /\ ~call.done
    /\ call' = [call EXCEPT !.done = TRUE, !.ret = calcGrade(call.arg)]
    /\ UNCHANGED <<appVars, args, pc, hashtags, smartKeywords, pool, titleRank, ranks, result,
                   probe, inflight, log>>

NextGrade == ApplyCalcGrade

SpecGrade == InitGrade /\ [][NextGrade]_vars

(***************************************************************************)
(* Specification SpecKw: extractSmartKeywords applied to a title, a body   *)
(* and a hashtag list                                                      *)
(***************************************************************************)
\* Texts are words separated by one blank.
TitleWords == { <<"mat", "jip", "eul">>, <<"gang", "nam">>, <<"o", "neul">> }

ContentWords == { <<"mat", "jip">>, <<"bom", "ot">> }

MaxTitleWords == 3

MaxContentWords == 2

WordSeqs(words, n) == UNION { [1..k -> words] : k \in 0..n }

Titles == { Join(ws, <<" ">>) : ws \in WordSeqs(TitleWords, MaxTitleWords) }

Contents == { Join(ws, <<" ">>) : ws \in WordSeqs(ContentWords, MaxContentWords) }

\* Hashtag lists are the windows of at most MaxTags tags of TagLine that start
\* at its first or second tag; TagLine repeats its first tag and holds two
\* nouns of the titles.
TagLine ==
    << <<"bom">>, <<"mat", "jip">>, <<"bom">>, <<"x", "7">>, <<"gang", "nam">>,
       <<"ot">>, <<"y">>, <<"kkot">> >>

MaxTags == 7

HashtagLists ==
    { SubSeq(TagLine, i, Min(i + k - 1, Len(TagLine))) :
        i \in 1..2, k \in 0..MaxTags }

InitKw ==
    /\ call \in { Pending("extractSmartKeywords",
                          [title |-> t, content |-> c, hashtags |-> h]) :
                    t \in Titles, c \in Contents, h \in HashtagLists }
    /\ args = NullStr
    /\ pc = "none"
    /\ Idle

ApplySmartKeywords ==
    /\ call.fn = "extractSmartKeywords"
    /\ ~call.done
    /\ call' = [call EXCEPT !.done = TRUE,
                            !.ret = extractSmartKeywords(call.arg.title, call.arg.content,
                                                         call.arg.hashtags)]
    /\ UNCHANGED <<appVars, args, pc, hashtags, smartKeywords, pool, titleRank, ranks, result,
                   probe, inflight, log>>

NextKw == ApplySmartKeywords

SpecKw == InitKw /\ [][NextKw]_vars

(***************************************************************************)
(* Properties of getBlogRank (SpecRank)                                    *)
(***************************************************************************)
Returned == pc = "returned"

\* The items received by the invocation, page after page.
RECURSIVE Flatten(_)
Flatten(ps) == IF ps = <<>> THEN <<>> ELSE Head(ps) \o Flatten(Tail(ps))

\* The positions of the target blog's items in a list of items.
HitPositions(items) == { i \in 1..Len(items) : items[i] \in HitItems }

Least(S) == CHOOSE i \in S : \A k \in S : i <= k

\* C1: whatever pages the search API answers with and whichever request
\* fails, getBlogRank returns null or a positive integer of at most 100.
C1_RankInRange ==
    probe.done => (probe.ret = NullRank \/ probe.ret \in 1..100)

\* The deepest rank is returned: the last item of the tenth page matches.
C1_Witness ==
    Returned /\ probe.ret = 100 /\ Len(probe.pages) = 10

\* C2: getBlogRank returns the 1-indexed position of the first item of the
\* target blog (its link or blogger link holds blog.naver.com/{blogId} in any
\* case): with that item the j-th of page p, after p - 1 full pages without
\* one, the result is 10 * (p - 1) + j, and no page is requested after it.
C2_FirstMatchPosition ==
    (Returned /\ ~probe.failed) =>
        LET p     == Len(probe.pages)
            items == Flatten(probe.pages)
            hits  == HitPositions(items)
        IN  IF hits = {} THEN probe.ret = NullRank
            ELSE LET j == Least(HitPositions(probe.pages[p]))
                 IN  /\ HitPositions(probe.pages[p]) # {}
                     /\ \A q \in 1..(p - 1) :
                            Len(probe.pages[q]) = 10 /\ HitPositions(probe.pages[q]) = {}
                     /\ probe.ret = 10 * (p - 1) + j
                     /\ probe.ret = Least(hits)
                     /\ Len(probe.reqs) = p
                     /\ inflight = NoRequest

\* The first item of the second page matches in upper case, and a later item
\* of that page matches too: the result is 11.
C2_Witness ==
    /\ Returned
    /\ probe.ret = 11
    /\ Len(probe.pages) = 2
    /\ probe.pages[2][1] = UpperCaseItem
    /\ Cardinality(HitPositions(probe.pages[2])) = 2

\* C3: the requests of one getBlogRank call have page size 10 and the start
\* offsets 1, 11, ..., 91, at most 10 of them; after a page without a match
\* that holds fewer than 10 items, and after 10 pages without a match, no
\* page is requested and the result is null.
C3_Paging ==
    LET n       == Len(probe.reqs)
        m       == Len(probe.pages)
        NoHit   == HitPositions(Flatten(probe.pages)) = {}
        stopped == probe.done /\ probe.ret = NullRank /\ inflight = NoRequest /\ n = m
    IN  /\ n <= 10
        /\ \A i \in 1..n :
               probe.reqs[i] = [query |-> probe.keyword, display |-> 10,
                                start |-> 10 * (i - 1) + 1]
        /\ (m > 0 /\ NoHit /\ Len(probe.pages[m]) < 10) => stopped
        /\ (m = 10 /\ NoHit) => stopped

\* Ten full pages without a match were scanned.
C3_Witness ==
    /\ Returned
    /\ ~probe.failed
    /\ Len(probe.pages) = 10
    /\ Len(probe.pages[10]) = 10
    /\ probe.reqs[10].start = 91
    /\ probe.ret = NullRank

(***************************************************************************)
(* Properties of analyzeBlogPosts (Spec)                                   *)
(***************************************************************************)
Done == pc = "done"

\* The positions of the messages of a kind in the log.
LogOf(kind) == { i \in 1..Len(log) : log[i].kind = kind }

\* The position of the message that opens the pool survey (0 before it).
SurveyAt == IF LogOf("surveyStart") = {} THEN 0 ELSE Least(LogOf("surveyStart"))

\* The pool probe of pool[k] logged a failure: an error message follows its
\* "querying" message.
PoolProbeFailed(k) ==
    \E i \in LogOf("rankError") :
        /\ i > SurveyAt /\ SurveyAt > 0
        /\ log[i - 1].kind = "querying"
        /\ log[i - 1].arg = pool[k]

\* C4: a failure of any page request of a rank probe is caught inside
\* getBlogRank, logged and turned into a null rank: nothing is thrown, the
\* analysis goes on to the next request, and the result has an entry for every
\* pool keyword, each of them queried.
C4_FailureYieldsNull ==
    /\ pc # "thrown"
    /\ pc \in {"title", "pool"} => inflight # NoRequest
    /\ \A i \in LogOf("rankError") :
           /\ i < Len(log)
           /\ IF SurveyAt = 0 \/ i < SurveyAt
              THEN log[i + 1].kind = "titleNotFound"
              ELSE /\ log[i - 1].kind = "querying"
                   /\ log[i + 1].kind = "notFound"
                   /\ log[i + 1].arg = log[i - 1].arg
                   /\ log[i].arg = log[i - 1].arg
    /\ Done =>
           /\ result # NoResult
           /\ Len(result.ranks) = Len(pool)
           /\ \A k \in 1..Len(pool) :
                  /\ \E i \in LogOf("querying") : log[i].arg = pool[k]
                  /\ PoolProbeFailed(k) => result.ranks[k].rank = NullRank

\* The probe of the first of three pool keywords failed, and the third was
\* still probed and found.
C4_Witness ==
    /\ Done
    /\ Len(pool) = 3
    /\ PoolProbeFailed(1)
    /\ ~PoolProbeFailed(3)
    /\ result.ranks[3].rank # NullRank

\* The ranks found among the entries rs.
FoundRanks(rs) == { rs[i].rank : i \in { k \in 1..Len(rs) : rs[k].rank # NullRank } }

\* C6: when some pool keyword has a rank, bestRank is the least rank found
\* and bestKeyword (and finalKeyword) the first keyword in pool order that
\* holds it.
C6_BestIsFirstMinimum ==
    (Done /\ FoundRanks(result.ranks) # {}) =>
        LET m == Least(FoundRanks(result.ranks))
            i == Least({ k \in 1..Len(result.ranks) : result.ranks[k].rank = m })
        IN  /\ result.bestRank = m
            /\ result.bestKeyword = pool[i]
            /\ result.finalKeyword = pool[i]

\* The first keyword has no rank and the other two share the best rank: the
\* second keyword is chosen.
C6_Witness ==
    /\ Done
    /\ Len(pool) = 3
    /\ result.ranks[1].rank = NullRank
    /\ result.ranks[2].rank = 3
    /\ result.ranks[3].rank = 3
    /\ result.bestKeyword = pool[2]
    /\ calcGrade(result.bestRank) = "A"

\* C7: when no pool keyword has a rank (the empty pool included), bestKeyword,
\* bestRank and finalKeyword are null and otherGoodKeywords is empty.
C7_AllNull ==
    (Done /\ FoundRanks(result.ranks) = {}) =>
        /\ result.bestKeyword = NullStr
        /\ result.bestRank = NullRank
        /\ result.finalKeyword = NullStr
        /\ result.otherGoodKeywords = <<>>

\* Three keywords were probed and none has a rank.
C7_Witness ==
    /\ Done
    /\ Len(result.ranks) = 3
    /\ FoundRanks(result.ranks) = {}
    /\ result.bestKeyword = NullStr

\* The position of a keyword in the pool.
PoolIndex(keyword) == CHOOSE k \in 1..Len(pool) : pool[k] = keyword

\* C8: otherGoodKeywords holds exactly the rank entries with a rank of at
\* most 10 whose keyword is not the best keyword, each once, in ascending
\* rank order and, among equal ranks, in pool order.
C8_OtherGoodKeywords ==
    Done =>
        LET og   == result.otherGoodKeywords
            rs   == result.ranks
            good == { k \in 1..Len(rs) :
                        /\ rs[k].rank # NullRank
                        /\ rs[k].rank <= 10
                        /\ rs[k].keyword # result.bestKeyword }
        IN  /\ Len(og) = Cardinality(good)
            /\ \A a \in 1..Len(og) : \E k \in good : og[a] = rs[k]
            /\ \A k \in good : \E a \in 1..Len(og) : og[a] = rs[k]
            /\ \A a, b \in 1..Len(og) :
                   a < b => \/ og[a].rank < og[b].rank
                            \/ /\ og[a].rank = og[b].rank
                               /\ PoolIndex(og[a].keyword) < PoolIndex(og[b].keyword)

\* The keywords rank 10, 3 and 1 in pool order: the others are the second
\* keyword and then the first.
C8_Witness ==
    /\ Done
    /\ Len(pool) = 3
    /\ result.ranks[1].rank = 10
    /\ result.ranks[2].rank = 3
    /\ result.ranks[3].rank = 1
    /\ result.otherGoodKeywords = <<result.ranks[2], result.ranks[1]>>

\* C9: ranks has one entry per pool member, in pool order, whether a probe
\* found a rank, found none or failed; while the pool is probed ranks is that
\* list's beginning.
C9_RanksFollowPool ==
    /\ Len(ranks) <= Len(pool)
    /\ \A i \in 1..Len(ranks) : ranks[i].keyword = pool[i]
    /\ Done =>
           /\ Len(result.ranks) = Len(result.pool)
           /\ \A i \in 1..Len(result.pool) : result.ranks[i].keyword = result.pool[i]

\* One keyword was found, one was not, and the probe of the third failed.
C9_Witness ==
    /\ Done
    /\ Len(result.pool) = 3
    /\ result.ranks[1].rank # NullRank
    /\ result.ranks[2].rank = NullRank
    /\ ~PoolProbeFailed(2)
    /\ PoolProbeFailed(3)

(***************************************************************************)
(* Properties of calcGrade (SpecGrade)                                     *)
(***************************************************************************)
\* C5: calcGrade gives S for rank 1, A for 2..5, B for 6..10, C for 11..30
\* and "minochul" (unexposed) for null and for every rank of 31 or more, and
\* no other grade.
C5_GradeTable ==
    (call.fn = "calcGrade" /\ call.done) =>
        LET r == call.arg
            g == call.ret
        IN  /\ g \in {"S", "A", "B", "C", "minochul"}
            /\ g = "S" <=> r = 1
            /\ g = "A" <=> r \in 2..5
            /\ g = "B" <=> r \in 6..10
            /\ g = "C" <=> r \in 11..30
            /\ g = "minochul" <=> (r = NullRank \/ r >= 31)

\* Rank 31 is graded unexposed.
C5_Witness ==
    call.fn = "calcGrade" /\ call.done /\ call.arg = 31 /\ call.ret = "minochul"

(***************************************************************************)
(* Properties of extractSmartKeywords (SpecKw)                             *)
(***************************************************************************)
FirstIndex(s, v) == Least({ i \in 1..Len(s) : s[i] = v })

\* C10: extractSmartKeywords returns at most 5 entries, no entry twice, and,
\* given fewer than 5 hashtags, the result begins with every hashtag, in the
\* order of the list, before any derived noun or n-gram.
C10_SmartKeywordCap ==
    (call.fn = "extractSmartKeywords" /\ call.done) =>
        LET h   == call.arg.hashtags
            ret == call.ret
            k   == Cardinality(Range(h))
        IN  /\ Len(ret) <= 5
            /\ \A a, b \in 1..Len(ret) : a # b => ret[a] # ret[b]
            /\ Len(h) < 5 =>
                   /\ Len(ret) >= k
                   /\ \A a \in 1..k : ret[a] \in Range(h)
                   /\ \A a, b \in 1..k :
                          a < b => FirstIndex(h, ret[a]) < FirstIndex(h, ret[b])

\* Four hashtags, one of them twice and one a noun of the title, are followed
\* by derived keywords up to the cap.
C10_Witness ==
    /\ call.fn = "extractSmartKeywords" /\ call.done
    /\ Len(call.arg.hashtags) = 4
    /\ Cardinality(Range(call.arg.hashtags)) = 3
    /\ Len(call.ret) = 5
    /\ call.ret[4] \notin Range(call.arg.hashtags)

(***************************************************************************)
(* Specification SpecMerge: mergeKeywordPool applied to a hashtag list and *)
(* a smart-keyword list                                                    *)
(***************************************************************************)
PoolTags == { <<"bom">>, <<"mat", "jip">>, <<"x", "7">> }

\* Smart keywords are hashtags, nouns and n-grams.
PoolSmart == PoolTags \cup { <<"gang", "nam">>, <<"gang", "nam", " ", "mat", "jip">> }

MaxPoolTags == 3

MaxPoolSmart == 3

InitMerge ==
    /\ call \in { Pending("mergeKeywordPool", [hashtags |-> h, smartKeywords |-> s]) :
                    h \in WordSeqs(PoolTags, MaxPoolTags),
                    s \in WordSeqs(PoolSmart, MaxPoolSmart) }
    /\ args = NullStr
    /\ pc = "none"
    /\ Idle

ApplyMergeKeywordPool ==
    /\ call.fn = "mergeKeywordPool"
    /\ ~call.done
    /\ call' = [call EXCEPT !.done = TRUE,
                            !.ret = mergeKeywordPool(call.arg.hashtags,
                                                     call.arg.smartKeywords)]
    /\ UNCHANGED <<appVars, args, pc, hashtags, smartKeywords, pool, titleRank, ranks, result,
                   probe, inflight, log>>

NextMerge == ApplyMergeKeywordPool

SpecMerge == InitMerge /\ [][NextMerge]_vars

(***************************************************************************)
(* Properties of mergeKeywordPool (SpecMerge)                              *)
(***************************************************************************)
\* C11: the pool holds exactly the hashtags and the smart keywords, none of
\* them twice, in the order of their first occurrence in the hashtag list
\* followed by the smart-keyword list: the distinct hashtags come first, then
\* the smart keywords that are not hashtags.
C11_PoolIsOrderedUnion ==
    (call.fn = "mergeKeywordPool" /\ call.done) =>
        LET h   == call.arg.hashtags
            s   == call.arg.smartKeywords
            ret == call.ret
            k   == Cardinality(Range(h))
        IN  /\ Range(ret) = Range(h) \cup Range(s)
            /\ \A a, b \in 1..Len(ret) : a # b => ret[a] # ret[b]
            /\ \A a \in 1..Len(ret) :
                   IF a <= k THEN ret[a] \in Range(h)
                   ELSE ret[a] \in Range(s) \ Range(h)
            /\ \A a, b \in 1..Len(ret) :
                   a < b => FirstIndex(h \o s, ret[a]) < FirstIndex(h \o s, ret[b])

\* A hashtag occurs twice, a smart keyword repeats a hashtag, and a smart
\* keyword that is no hashtag ends the pool.
C11_Witness ==
    /\ call.fn = "mergeKeywordPool" /\ call.done
    /\ call.arg.hashtags = << <<"bom">>, <<"mat", "jip">>, <<"bom">> >>
    /\ call.arg.smartKeywords = << <<"mat", "jip">>, <<"gang", "nam">> >>
    /\ call.ret = << <<"bom">>, <<"mat", "jip">>, <<"gang", "nam">> >>

(***************************************************************************)
(* Specification SpecTags: extractHashtags applied to a text, and then to  *)
(* the text written from the tags it returned                              *)
(***************************************************************************)
TextChars == { "#", "bom", "ot", " ", "_" }

MaxTextLen == 5

\* '#bom ot #bom'
ExampleText == <<"#", "bom", " ", "ot", " ", "#", "bom">>

Texts == UNION { [1..k -> TextChars] : k \in 0..MaxTextLen } \cup { ExampleText }

\* The tags written as a text: each with its marker, joined by sep.
Retag(tags, sep) == Join([i \in 1..Len(tags) |-> <<"#">> \o tags[i]], sep)

TagSeparators == { <<>>, <<" ">> }

\* In SpecTags args holds the application before the current one.
InitTags ==
    /\ call \in { Pending("extractHashtags", t) : t \in Texts }
    /\ args = NoCall
    /\ pc = "none"
    /\ Idle

ApplyExtractHashtags ==
    /\ call.fn = "extractHashtags"
    /\ ~call.done
    /\ call' = [call EXCEPT !.done = TRUE, !.ret = extractHashtags(call.arg)]
    /\ UNCHANGED <<appVars, args, pc, hashtags, smartKeywords, pool, titleRank, ranks, result,
                   probe, inflight, log>>

\* The tags returned are written out and extracted again.
ReExtractHashtags ==
    /\ call.fn = "extractHashtags"
    /\ call.done
    /\ args = NoCall
    /\ \E sep \in TagSeparators :
           LET text == Retag(call.ret, sep)
           IN  call' = [fn |-> "extractHashtags", arg |-> text, done |-> TRUE,
                        ret |-> extractHashtags(text)]
    /\ args' = call
    /\ UNCHANGED <<appVars, pc, hashtags, smartKeywords, pool, titleRank, ranks, result,
                   probe, inflight, log>>

NextTags == ApplyExtractHashtags \/ ReExtractHashtags

SpecTags == InitTags /\ [][NextTags]_vars

(***************************************************************************)
(* Properties of extractHashtags (SpecTags)                                *)
(***************************************************************************)
\* The positions of the markers that open a token.
Marks(text) == { i \in 1..(Len(text) - 1) : text[i] = "#" /\ IsTagChar(text[i + 1]) }

\* The token opened by the marker at i: the tag characters that follow it.
TokenAt(text, i) ==
    LET e == CHOOSE j \in (i + 1)..Len(text) :
                 /\ \A k \in (i + 1)..j : IsTagChar(text[k])
                 /\ j = Len(text) \/ ~IsTagChar(text[j + 1])
    IN  SubSeq(text, i + 1, e)

\* C12: extractHashtags returns the tokens marked with '#' in the text, each
\* once and without its marker, in the order in which they first occur; and
\* extracting again from the text written from the returned tags, each with
\* its marker, returns the same list.
C12_HashtagsOnceInOrder ==
    (call.fn = "extractHashtags" /\ call.done) =>
        LET text == call.arg
            ret  == call.ret
            FirstMark(tag) == Least({ i \in Marks(text) : TokenAt(text, i) = tag })
        IN  /\ Range(ret) = { TokenAt(text, i) : i \in Marks(text) }
            /\ \A a, b \in 1..Len(ret) : a # b => ret[a] # ret[b]
            /\ \A a \in 1..Len(ret) : ~Includes(ret[a], "#")
            /\ \A a, b \in 1..Len(ret) : a < b => FirstMark(ret[a]) < FirstMark(ret[b])
            /\ args.fn = "extractHashtags" =>
                   /\ \E sep \in TagSeparators : text = Retag(args.ret, sep)
                   /\ ret = args.ret

\* '#bom ot #bom' gives the one tag bom, and so does '#bom'.
C12_Witness ==
    /\ args.fn = "extractHashtags"
    /\ args.arg = ExampleText
    /\ args.ret = << <<"bom">> >>
    /\ call.arg = <<"#", "bom">>
    /\ call.ret = << <<"bom">> >>

(***************************************************************************)
(* Properties of the order of the search requests (Spec)                   *)
(***************************************************************************)
\* The requests of an invocation that have neither been answered nor failed.
Outstanding(p) == Len(p.reqs) - Len(p.pages) - (IF p.failed THEN 1 ELSE 0)

\* The positions of the messages that report the title probe's return, a
\* pool probe's start and a pool probe's return.
TitleReturns == LogOf("titleFirst") \cup LogOf("titleRank") \cup LogOf("titleNotFound")

ProbeStarts == LogOf("querying")

ProbeReturns == LogOf("rank") \cup LogOf("notFound")

Before(S, i) == Cardinality({ k \in S : k < i })

\* C13: in a run of analyzeBlogPosts at most one search request is
\* outstanding, and it belongs to the one probe under way; the title probe
\* has returned when the first pool probe starts, and every pool probe has
\* returned when the next one starts.
C13_SequentialProbes ==
    /\ Outstanding(probe) \in {0, 1}
    /\ inflight # NoRequest <=> Outstanding(probe) = 1
    /\ inflight # NoRequest => inflight = Last(probe.reqs)
    /\ \A i \in 1..Len(probe.reqs) : probe.reqs[i].query = probe.keyword
    /\ pc = "title" =>
           /\ probe.keyword = args.title
           /\ TitleReturns = {} /\ ProbeStarts = {}
    /\ pc = "pool" =>
           /\ Cardinality(TitleReturns) = 1
           /\ Len(ranks) < Len(pool)
           /\ probe.keyword = pool[Len(ranks) + 1]
           /\ Cardinality(ProbeStarts) = Len(ranks) + 1
           /\ Cardinality(ProbeReturns) = Len(ranks)
    /\ \A i \in ProbeStarts :
           /\ \E t \in TitleReturns : t < i
           /\ Before(ProbeReturns, i) = Before(ProbeStarts, i)
           /\ log[i].arg = pool[Before(ProbeStarts, i) + 1]
    /\ \A i \in ProbeReturns : Before(ProbeStarts, i) = Before(ProbeReturns, i) + 1

\* The third pool probe waits for its second page after the first two probes
\* returned.
C13_Witness ==
    /\ pc = "pool"
    /\ Len(ranks) = 2
    /\ Len(probe.reqs) = 2
    /\ inflight = SearchRequest(pool[3], 11)

(***************************************************************************)
(* sheetSaver: resultToRow and the local store                             *)
(***************************************************************************)
\* `${result.bestRank}wi` ("wi" is the rank suffix), or '-'
RankText(rank) == IF rank # NullRank THEN <<rank, "wi">> ELSE <<"-">>

\* The row of a result; its date column is the day of the call, which the
\* model does not keep.
resultToRow(title, res) ==
    [ blogTitle   |-> title,
      bestKeyword |-> IF res.finalKeyword = NullStr THEN <<"-">> ELSE res.finalKeyword,
      bestRank    |-> RankText(res.bestRank),
      grade       |-> calcGrade(res.bestRank) ]

\* The value under STORAGE_KEY is the JSON text of a list of entries
\* (JSON.parse gives back the list JSON.stringify was given: an entry holds
\* strings, numbers, null and arrays of them), or a text JSON.parse rejects.
Stored(list) == [raw |-> "json", value |-> list]

CorruptStore == [raw |-> "corrupt", value |-> <<>>]

\* Reading the store throws: JSON.parse rejects the text.
ReadFailed(st) == st.raw = "corrupt"

\* Mutant of loadResultsFromLocal: the stored list is never read.
loadResultsFromLocalEmpty(st) == <<>>

\* loadResultsFromLocal: the parsed list, [] for an absent key, and [] from
\* the catch block when reading throws.
loadResultsFromLocal(st) == IF st.raw = "json" THEN st.value ELSE <<>>

\* Mutant of saveResultToLocal: a failed write is thrown on to runAnalysis.
saveResultToLocalRethrow(entry, st, writeFails) ==
    LET existing == Append(loadResultsFromLocal(st), entry)
    IN  IF writeFails
        THEN [store |-> st, log |-> <<>>, threw |-> TRUE]
        ELSE [store |-> Stored(existing), log |-> <<Msg("localSaved", Len(existing))>>,
              threw |-> FALSE]

\* saveResultToLocal(entry, onLog) on the store st, where localStorage.setItem
\* throws (quota, storage disabled) when writeFails: the store it leaves, what
\* it logs and whether it throws.
saveResultToLocal(entry, st, writeFails) ==
    LET existing == Append(loadResultsFromLocal(st), entry)
    IN  IF writeFails
        THEN [store |-> st, log |-> <<Msg("localSaveError", NullStr)>>, threw |-> FALSE]
        ELSE [store |-> Stored(existing), log |-> <<Msg("localSaved", Len(existing))>>,
              threw |-> FALSE]

(***************************************************************************)
(* App: runAnalysis and handleStart                                        *)
(*                                                                         *)
(* A URL is a sequence of segments, as a link is.                          *)
(***************************************************************************)
DEFAULT_BLOG_ID == <<"gabianow">>

DEFAULT_COUNT == 5

\* url.match(/blog\.naver\.com\/([^/?#]+)/): the segment after the first host
\* segment that is followed by one, '' without a match
BlogIdOf(url) ==
    LET at == { i \in 1..(Len(url) - 1) :
                  url[i] = "blog.naver.com/" /\ url[i + 1] \notin {"/", "?", "#"} }
    IN  IF at = {} THEN <<>> ELSE <<url[(CHOOSE i \in at : \A k \in at : i <= k) + 1]>>

\* input.includes('blog.naver.com')
IsPostUrl(input) == Includes(input, "blog.naver.com/")

PostNos == <<"1", "2", "3", "4", "5">>

PostLink(id, k) == <<"https://", "blog.naver.com/">> \o id \o <<"/", PostNos[k]>>

\* What fetchRecentBlogPosts returns when the blog lists n posts.
RecentPosts(id, n) ==
    [k \in 1..n |-> [title |-> <<"x">>, link |-> PostLink(id, k), postNo |-> PostNos[k]]]

\* The title and body fetchAndParseBlog parses from the page of a post: the
\* fifth post of a blog has a noun for a title, the others have no keyword.
PageOf(url) ==
    IF Last(url) = "5" THEN [title |-> <<"mat", "jip">>, content |-> <<>>]
    ELSE [title |-> <<"x">>, content |-> <<>>]

\* An event of the App's history.
Ev(e, arg) == [e |-> e, arg |-> arg]

\* Mutant of RunCatch: the catch block is missing, the error leaves runAnalysis.
RunCatchRethrow(lg) == [log |-> lg, status |-> status, threw |-> TRUE]

\* catch (err) { addLog(...); setCurrentAnalysis(prev => ({...prev, status: 'error'})) }
RunCatch(lg) ==
    [log |-> lg \o <<Msg("analysisError", NullStr)>>, status |-> "error", threw |-> FALSE]

\* Mutant of PauseNeeded: the pause follows every post.
PauseNeededAfterEach(i, n) == i < n

\* if (i < posts.length - 1) await new Promise(r => setTimeout(r, 1500))
PauseNeeded(i, n) == i < n - 1

\* runAnalysis(url, current, total) from its entry to the axios.get of
\* fetchAndParseBlog, with lg logged and h done so far.
StartRun(url, current, total, lg, h) ==
    /\ run' = [pc |-> "fetching", url |-> url, blogId |-> BlogIdOf(url),
               title |-> NullStr, current |-> current, total |-> total]
    /\ status' = "parsing"
    /\ log' = lg \o <<Msg("loading", NullStr)>>
    /\ history' = h \o <<Ev("run", url)>>

\* handleStart returns: finally { setIsAnalyzing(false) }
Finish(lg, st, h) ==
    /\ handler' = [handler EXCEPT !.pc = "returned"]
    /\ isAnalyzing' = FALSE
    /\ run' = NoRun
    /\ log' = lg
    /\ status' = st
    /\ history' = h

\* A rejection leaves handleStart through its finally block.
Escape(lg, st, h) ==
    /\ handler' = [handler EXCEPT !.pc = "thrown"]
    /\ isAnalyzing' = FALSE
    /\ run' = NoRun
    /\ log' = lg
    /\ status' = st
    /\ history' = h

\* The step of the loop over posts: i++, and the next post if i < posts.length.
LoopNext(lg, st, h) ==
    LET i == handler.i + 1
    IN  IF i < Len(handler.posts)
        THEN /\ handler' = [handler EXCEPT !.pc = "batch", !.i = i]
             /\ isAnalyzing' = isAnalyzing
             /\ StartRun(handler.posts[i + 1].link, i + 1, Len(handler.posts), lg, h)
        ELSE Finish(lg, st, h)

\* runAnalysis has returned to handleStart.
AfterRun(lg, st, h) ==
    IF handler.pc = "single" THEN Finish(lg, st, h)
    ELSE IF PauseNeeded(handler.i, Len(handler.posts))
         THEN /\ handler' = [handler EXCEPT !.pc = "pausing"]
              /\ isAnalyzing' = isAnalyzing
              /\ run' = NoRun
              /\ log' = lg
              /\ status' = st
              /\ history' = h \o <<Ev("pause", NullStr)>>
         ELSE LoopNext(lg, st, h)

\* The user starts an analysis: handleStart up to its first await.
HandleStart ==
    /\ handler.pc = "ready"
    /\ ~isAnalyzing
    /\ IF ~config.loaded
       THEN /\ log' = log \o <<Msg("configMissing", NullStr)>>
            /\ handler' = [handler EXCEPT !.pc = "returned"]
            /\ UNCHANGED <<isAnalyzing, status, run, history>>
       ELSE /\ isAnalyzing' = TRUE
            /\ IF handler.input # <<>> /\ IsPostUrl(handler.input)
               THEN /\ handler' = [handler EXCEPT !.pc = "single"]
                    /\ StartRun(handler.input, 0, 0, log, history)
               ELSE /\ handler' = [handler EXCEPT !.pc = "listing"]
                    /\ log' = log \o <<Msg("listing",
                                          IF handler.input = <<>> THEN DEFAULT_BLOG_ID
                                          ELSE handler.input)>>
                    /\ UNCHANGED <<status, run, history>>
    /\ UNCHANGED <<sheetPosts, rendered, second, config, analysisResults, store, sheet, args, pc, hashtags,
                   smartKeywords, pool, titleRank, ranks, result, probe, inflight, call>>

\* The most posts the blog lists.
MaxPosts == 2

\* fetchRecentBlogPosts returns the n posts it found (none when the feed and
\* the post list both fail), and the loop starts.
ListReturns ==
    /\ handler.pc = "listing"
    /\ \E n \in 0..Min(MaxPosts, DEFAULT_COUNT) :
          LET blogId == IF handler.input = <<>> THEN DEFAULT_BLOG_ID ELSE handler.input
              posts  == RecentPosts(blogId, n)
              lg     == log \o <<Msg("listed", n)>>
          IN  IF n = 0 THEN Finish(lg, status, history)
              ELSE /\ handler' = [handler EXCEPT !.pc = "batch", !.posts = posts, !.i = 0]
                   /\ isAnalyzing' = isAnalyzing
                   /\ StartRun(posts[1].link, 1, n, lg, history)
    /\ UNCHANGED <<sheetPosts, rendered, second, config, analysisResults, store, sheet, args, pc, hashtags,
                   smartKeywords, pool, titleRank, ranks, result, probe, inflight, call>>

\* The page of the post arrives: fetchAndParseBlog returns it parsed, and
\* runAnalysis enters analyzeBlogPosts.
FetchResponds ==
    /\ run.pc = "fetching"
    /\ LET page == PageOf(run.url)
           a    == [title |-> page.title, content |-> page.content, blogId |-> run.blogId]
       IN  /\ args' = a
           /\ run' = [run EXCEPT !.pc = "analyzing", !.title = page.title]
           /\ status' = "analyzing"
           /\ EnterAnalysis(a, log \o <<Msg("parsed", page.title)>>)
    /\ titleRank' = NullRank
    /\ ranks' = <<>>
    /\ result' = NoResult
    /\ history' = history \o <<Ev("analyze", NullStr)>>
    /\ UNCHANGED <<sheetPosts, rendered, second, config, isAnalyzing, analysisResults, store, sheet, handler, call>>

\* The page request fails, or its body is too short: fetchAndParseBlog throws
\* and the catch block of runAnalysis runs.
FetchFails ==
    /\ run.pc = "fetching"
    /\ LET c == RunCatch(log)
           h == history \o <<Ev("fetchFailed", NullStr)>>
       IN  IF c.threw THEN Escape(c.log, c.status, h)
           ELSE AfterRun(c.log, c.status, h \o <<Ev("end", c.status)>>)
    /\ UNCHANGED <<sheetPosts, rendered, second, config, analysisResults, store, sheet, args, pc, hashtags,
                   smartKeywords, pool, titleRank, ranks, result, probe, inflight, call>>

\* analyzeBlogPosts has returned: lines 101-113 of runAnalysis, up to the
\* fetch of saveToGoogleSheet or, without an Apps Script URL, to the return.
AnalysisReturns ==
    /\ pc = "done"
    /\ run.pc = "analyzing"
    /\ \E writeFails \in BOOLEAN :
          LET row   == resultToRow(run.title, result)
              entry == [title |-> run.title, blogId |-> run.blogId,
                        result |-> result, row |-> row]
              saved == saveResultToLocal(entry, store, writeFails)
              h     == history \o <<Ev("save", [readFailed  |-> ReadFailed(store),
                                               writeFailed |-> writeFails])>>
          IN  /\ store' = saved.store
              /\ IF saved.threw
                 THEN LET c == RunCatch(log \o saved.log)
                      IN  /\ analysisResults' = analysisResults
                          /\ sheet' = sheet
                          /\ AfterRun(c.log, c.status, h \o <<Ev("end", c.status)>>)
                 ELSE /\ analysisResults' = Append(analysisResults, entry)
                      /\ IF config.googleAppsScriptUrl # NullStr
                         THEN /\ sheet' = Append(sheet, row)
                              /\ run' = [run EXCEPT !.pc = "posting"]
                              /\ status' = "complete"
                              /\ log' = log \o saved.log
                              /\ history' = h
                              /\ UNCHANGED <<handler, isAnalyzing>>
                         ELSE /\ sheet' = sheet
                              /\ AfterRun(log \o saved.log, "complete",
                                          h \o <<Ev("end", "complete")>>)
    /\ UNCHANGED <<sheetPosts, rendered, second, config, args, pc, hashtags, smartKeywords, pool, titleRank, ranks,
                   result, probe, inflight, call>>

\* The post to the Apps Script web app is answered: runAnalysis returns.
SheetResponds ==
    /\ run.pc = "posting"
    /\ AfterRun(log \o <<Msg("sheetSent", NullStr)>>, status,
                history \o <<Ev("end", status)>>)
    /\ UNCHANGED <<sheetPosts, rendered, second, config, analysisResults, store, sheet, args, pc, hashtags,
                   smartKeywords, pool, titleRank, ranks, result, probe, inflight, call>>

\* The post fails: saveToGoogleSheet catches and logs, runAnalysis returns.
SheetFails ==
    /\ run.pc = "posting"
    /\ AfterRun(log \o <<Msg("sheetError", NullStr)>>, status,
                history \o <<Ev("end", status)>>)
    /\ UNCHANGED <<sheetPosts, rendered, second, config, analysisResults, store, sheet, args, pc, hashtags,
                   smartKeywords, pool, titleRank, ranks, result, probe, inflight, call>>

\* The pause between two posts is over.
PauseElapsed ==
    /\ handler.pc = "pausing"
    /\ LoopNext(log, status, history)
    /\ UNCHANGED <<sheetPosts, rendered, second, config, analysisResults, store, sheet, args, pc, hashtags,
                   smartKeywords, pool, titleRank, ranks, result, probe, inflight, call>>

\* The most presses of the 'clear history' button.
MaxClears == 1

\* Mutant of ClearHistory: the list on the screen is left as it is.
ClearHistoryStoreOnly ==
    /\ handler.pc # "none"
    /\ Cardinality({ k \in 1..Len(history) : history[k].e = "clear" }) < MaxClears
    /\ store' = AbsentStore
    /\ analysisResults' = analysisResults
    /\ log' = log \o <<Msg("cleared", NullStr)>>
    /\ history' = history \o <<Ev("clear", NullStr)>>
    /\ UNCHANGED <<sheetPosts, rendered, second, config, isAnalyzing, status, sheet, handler, run, args, pc, hashtags,
                   smartKeywords, pool, titleRank, ranks, result, probe, inflight, call>>

\* The user presses 'clear history': clearLocalResults(),
\* setAnalysisResults([]), addLog(...).
ClearHistory ==
    /\ handler.pc # "none"
    /\ Cardinality({ k \in 1..Len(history) : history[k].e = "clear" }) < MaxClears
    /\ store' = AbsentStore
    /\ analysisResults' = <<>>
    /\ log' = log \o <<Msg("cleared", NullStr)>>
    /\ history' = history \o <<Ev("clear", NullStr)>>
    /\ UNCHANGED <<sheetPosts, rendered, second, config, isAnalyzing, status, sheet, handler, run, args, pc, hashtags,
                   smartKeywords, pool, titleRank, ranks, result, probe, inflight, call>>

(***************************************************************************)
(* Specification SpecApp: one press of the start button                    *)
(***************************************************************************)
\* The search API answers a probe of the App with a short page that lists the
\* blog first, or not at all.
AppPages == { MkPage(ShortLen, M, TargetItem) : M \in { {}, {1} } }

\* The search input, trimmed: the URL of a post, a blog id, or nothing.
AppInputs == { PostLink(<<"k">>, 5), <<"k">>, <<>> }

Configs ==
    { NoConfig,
      [loaded |-> TRUE, googleAppsScriptUrl |-> NullStr],
      [loaded |-> TRUE, googleAppsScriptUrl |-> <<"script">>] }

InitApp ==
    /\ config \in Configs
    /\ isAnalyzing = FALSE
    /\ status = "idle"
    /\ store \in { AbsentStore, CorruptStore }
    /\ analysisResults = loadResultsFromLocal(store)
    /\ sheet = <<>>
    /\ handler \in { [pc |-> "ready", input |-> in, posts |-> <<>>, i |-> 0] :
                       in \in AppInputs }
    /\ run = NoRun
    /\ history = <<>>
    /\ rendered = FALSE
    /\ second = NoSecond
    /\ sheetPosts = <<>>
    /\ args = NullStr
    /\ pc = "none"
    /\ call = NoCall
    /\ NoAnalysis

RespondApp == Respond(AppPages)

NextApp ==
    \/ HandleStart
    \/ ListReturns
    \/ FetchResponds
    \/ FetchFails
    \/ RespondApp
    \/ Fail
    \/ AnalysisReturns
    \/ SheetResponds
    \/ SheetFails
    \/ PauseElapsed

SpecApp == InitApp /\ [][NextApp]_vars

(***************************************************************************)
(* Specification SpecSession: a session of the App over a store that may   *)
(* hold an entry of an earlier session, with the 'clear history' button    *)
(***************************************************************************)
\* The entry an earlier session stored for a post without a ranked keyword.
OldEntry ==
    LET res == [ hashtags |-> <<>>, smartKeywords |-> <<>>, pool |-> <<>>,
                 titleRank |-> NullRank, ranks |-> <<>>,
                 bestKeyword |-> NullStr, bestRank |-> NullRank,
                 otherGoodKeywords |-> <<>>, finalKeyword |-> NullStr,
                 searchVolume |-> NullRank ]
    IN  [ title |-> <<"old">>, blogId |-> <<"k">>, result |-> res,
          row |-> resultToRow(<<"old">>, res) ]

SessionStores == { AbsentStore, CorruptStore, Stored(<<OldEntry>>) }

InitSession ==
    /\ config \in Configs
    /\ isAnalyzing = FALSE
    /\ status = "idle"
    /\ store \in SessionStores
    /\ analysisResults = loadResultsFromLocal(store)
    /\ sheet = <<>>
    /\ handler \in { [pc |-> "ready", input |-> in, posts |-> <<>>, i |-> 0] :
                       in \in AppInputs }
    /\ run = NoRun
    /\ history = <<>>
    /\ rendered = FALSE
    /\ second = NoSecond
    /\ sheetPosts = <<>>
    /\ args = NullStr
    /\ pc = "none"
    /\ call = NoCall
    /\ NoAnalysis

NextSession == NextApp \/ ClearHistory

SpecSession == InitSession /\ [][NextSession]_vars

(***************************************************************************)
(* Properties of runAnalysis and handleStart (SpecApp)                     *)
(***************************************************************************)
\* The positions of the events of a kind in the history.
EventsOf(e) == { k \in 1..Len(history) : history[k].e = e }

\* The step in which the fetch of a post fails.
FetchFailedNow ==
    /\ Len(history') > Len(history)
    /\ history'[Len(history) + 1].e = "fetchFailed"

ReadFailures == { k \in EventsOf("save") : history[k].arg.readFailed }

WriteFailures == { k \in EventsOf("save") : history[k].arg.writeFailed }

\* Every save appends its entry in memory and ends its run with status
\* 'complete'.
SaveCompletes ==
    /\ handler.pc # "thrown"
    /\ Len(analysisResults) = Cardinality(EventsOf("save"))
    /\ \A k \in EventsOf("save") :
           IF k < Len(history) THEN history[k + 1] = Ev("end", "complete")
           ELSE status = "complete"

\* C17 as claimed: every failure of the local store during a save, reading or
\* writing, is logged, and the save completes.
C17_StoreFailureLogged ==
    /\ Cardinality(LogOf("localSaveError")) = Cardinality(ReadFailures \cup WriteFailures)
    /\ SaveCompletes

\* C17, amended: a failure to write the local store is caught and logged; a
\* failure to read it is caught without a log line, the store being read as
\* empty, and the save reports success unless the write fails too.  In either
\* case the entry is appended to the in-memory list and the status becomes
\* 'complete', never 'error'.
C17_WriteFailureLogged ==
    /\ Cardinality(LogOf("localSaveError")) = Cardinality(WriteFailures)
    /\ Cardinality(LogOf("localSaved")) = Cardinality(EventsOf("save") \ WriteFailures)
    /\ SaveCompletes

\* Of two saves the first failed to write, and the second failed to read and
\* wrote; both entries are in memory and the batch has returned.
C17_Witness ==
    /\ handler.pc = "returned"
    /\ Cardinality(EventsOf("save")) = 2
    /\ \E k \in WriteFailures : \E j \in ReadFailures \ WriteFailures : k < j
    /\ Len(analysisResults) = 2
    /\ status = "complete"

\* The runs, their ends and the pauses of the history, in order.
Rounds ==
    SelectSeq(history, LAMBDA ev : ev.e \in {"run", "end", "pause"})

\* C18: in a batch over the N posts listed, runAnalysis is called for the
\* posts in list order, each call after the previous one ended with status
\* 'complete' or 'error' and after a pause; every post is analysed whatever
\* the status of the ones before it, and no pause follows the last post.
C18_BatchInOrder ==
    (handler.pc \in {"batch", "pausing", "returned"} /\ ~IsPostUrl(handler.input)
     /\ config.loaded) =>
        LET N == Len(handler.posts)
            R == Rounds
        IN  /\ N <= DEFAULT_COUNT
            /\ \A j \in 1..Len(R) :
                   LET m == (j + 2) \div 3
                   IN  /\ m <= N
                       /\ j % 3 = 1 => R[j] = Ev("run", handler.posts[m].link)
                       /\ j % 3 = 2 => R[j].e = "end" /\ R[j].arg \in {"complete", "error"}
                       /\ j % 3 = 0 => R[j].e = "pause" /\ m < N
            /\ handler.pc = "pausing" => Len(R) % 3 = 0 /\ run = NoRun
            /\ handler.pc = "batch" => Len(R) % 3 = 1 /\ run # NoRun
            /\ handler.pc = "returned" =>
                   /\ ~isAnalyzing
                   /\ Len(R) = IF N = 0 THEN 0 ELSE 3 * N - 1

\* A batch of MaxPosts posts has returned; the first post ended in error.
C18_Witness ==
    /\ handler.pc = "returned"
    /\ Len(handler.posts) = MaxPosts
    /\ Rounds[2] = Ev("end", "error")
    /\ Rounds[3 * MaxPosts - 1] = Ev("end", "complete")
    /\ Cardinality(EventsOf("pause")) = MaxPosts - 1

(***************************************************************************)
(* 8. parseVolume, getSearchVolume                                         *)
(*                                                                         *)
(* A value of type `any` carries its type: a number, a string or           *)
(* undefined.                                                              *)
(***************************************************************************)
Num(n) == [type |-> "number", num |-> n]

Str(s) == [type |-> "string", chars |-> s]

Undefined == [type |-> "undefined"]

\* NaN: no number of the model is negative
NaN == -1

DigitChars == <<"0", "1", "2", "3", "4", "5", "6", "7", "8", "9">>

IsDigit(c) == \E i \in 1..Len(DigitChars) : DigitChars[i] = c

DigitValue(c) == (CHOOSE i \in 1..Len(DigitChars) : DigitChars[i] = c) - 1

\* The value of a string of decimal digits.
RECURSIVE Decimal(_)
Decimal(s) ==
    IF s = <<>> THEN 0
    ELSE Decimal(SubSeq(s, 1, Len(s) - 1)) * 10 + DigitValue(s[Len(s)])

\* s.trim(): the white space at both ends removed
RECURSIVE Trim(_)
Trim(s) ==
    IF s = <<>> THEN s
    ELSE IF IsSpace(Head(s)) THEN Trim(Tail(s))
    ELSE IF IsSpace(s[Len(s)]) THEN Trim(SubSeq(s, 1, Len(s) - 1))
    ELSE s

\* Number(val) for undefined and for strings of digits, blanks and other
\* characters: white space at the ends is ignored, the empty string is 0 and
\* a string that is no numeral is NaN.
Number(val) ==
    IF val.type = "number" THEN val.num
    ELSE IF val.type = "undefined" THEN NaN
    ELSE LET t == Trim(val.chars)
         IN  IF t = <<>> THEN 0
             ELSE IF \A i \in 1..Len(t) : IsDigit(t[i]) THEN Decimal(t)
             ELSE NaN

\* Mutant of parseVolume: the "fewer than" sentinel counts as nothing.
parseVolumeSentinelZero(val) ==
    IF val.type = "number" THEN val.num
    ELSE IF val.type = "string" /\ Includes(val.chars, "<") THEN 0
    ELSE LET n == Number(val)
         IN  IF n = NaN THEN 0 ELSE n

parseVolume(val) ==
    IF val.type = "number" THEN val.num
    ELSE IF val.type = "string" /\ Includes(val.chars, "<") THEN 5
    ELSE LET n == Number(val)
         IN  IF n = NaN THEN 0 ELSE n

\* !x for a string | undefined
Falsy(x) == x = NullStr \/ x = <<>>

\* Mutant of CredentialsIncomplete: the call is skipped only when all three
\* fields are missing.
CredentialsAllMissing(ads) ==
    Falsy(ads.licenseKey) /\ Falsy(ads.secretKey) /\ Falsy(ads.customerId)

\* !config.searchAds.licenseKey || !config.searchAds.secretKey ||
\* !config.searchAds.customerId
CredentialsIncomplete(ads) ==
    Falsy(ads.licenseKey) \/ Falsy(ads.secretKey) \/ Falsy(ads.customerId)

\* null of `SearchVolumeEntry | null`
NullVolume == [null |-> TRUE]

\* The base64 HMAC-SHA256 of `${timestamp}.GET./keywordstool` under the
\* secret key.
Signature(secretKey) == <<"hmac">> \o secretKey

\* axios.get('/naver-ads/keywordstool', {params, headers})
AdsRequest(keyword, ads) ==
    [ hintKeywords |-> keyword, showDetail |-> 1,
      apiKey |-> ads.licenseKey, customer |-> ads.customerId,
      signature |-> Signature(ads.secretKey) ]

\* s.replace(/\s/g, '')
NoSpaces(s) == SelectSeq(s, LAMBDA c : ~IsSpace(c))

\* k.relKeyword === keyword ||
\* k.relKeyword?.replace(/\s/g, '') === keyword.replace(/\s/g, '')
SameKeyword(k, keyword) ==
    /\ k.relKeyword # NullStr
    /\ k.relKeyword = keyword \/ NoSpaces(k.relKeyword) = NoSpaces(keyword)

\* keywordList.find(...) ?? keywordList[0]
Found(keywordList, keyword) ==
    LET hits == { i \in 1..Len(keywordList) : SameKeyword(keywordList[i], keyword) }
    IN  IF hits = {} THEN keywordList[1]
        ELSE keywordList[CHOOSE i \in hits : \A j \in hits : i <= j]

\* Lines 276-283: the entry returned for the list entry found.
VolumeEntry(found, keyword) ==
    LET pcCount == parseVolume(found.monthlyPcQcCnt)
        mobile  == parseVolume(found.monthlyMobileQcCnt)
    IN  [ keyword |-> IF found.relKeyword = NullStr THEN keyword ELSE found.relKeyword,
          monthlyPcQcCnt |-> pcCount,
          monthlyMobileQcCnt |-> mobile,
          totalVolume |-> pcCount + mobile ]

\* An invocation of getSearchVolume: its arguments, the requests it sent, the
\* keyword list it received, the entry it found and what it returned.
VolumeCall(keyword, ads) ==
    [ fn |-> "getSearchVolume", arg |-> [keyword |-> keyword, searchAds |-> ads],
      done |-> FALSE, ret |-> NullVolume, requests |-> <<>>,
      keywordList |-> <<>>, found |-> NullVolume ]

\* getSearchVolume returns v.
VolumeReturns(c, v, lg) ==
    /\ call' = [c EXCEPT !.done = TRUE, !.ret = v]
    /\ log' = lg
    /\ inflight' = NoRequest
    /\ pc' = "returned"

\* getSearchVolume from its entry to the first await.
CallGetSearchVolume ==
    /\ pc = "callVolume"
    /\ IF CredentialsIncomplete(call.arg.searchAds)
       THEN VolumeReturns(call, NullVolume, log \o <<Msg("volumeSkip", NullStr)>>)
       ELSE /\ pc' = "signing"
            /\ UNCHANGED <<call, log, inflight>>
    /\ UNCHANGED <<appVars, args, hashtags, smartKeywords, pool, titleRank, ranks,
                   result, probe>>

\* makeAdsSignature returns the signature: the request is sent.
Signed ==
    /\ pc = "signing"
    /\ inflight' = AdsRequest(call.arg.keyword, call.arg.searchAds)
    /\ call' = [call EXCEPT !.requests = Append(@, inflight')]
    /\ pc' = "volume"
    /\ UNCHANGED <<appVars, args, hashtags, smartKeywords, pool, titleRank, ranks,
                   result, probe, log>>

\* makeAdsSignature rejects (no crypto.subtle): the catch block logs and
\* returns null.
SignFails ==
    /\ pc = "signing"
    /\ VolumeReturns(call, NullVolume, log \o <<Msg("volumeError", call.arg.keyword)>>)
    /\ UNCHANGED <<appVars, args, hashtags, smartKeywords, pool, titleRank, ranks,
                   result, probe>>

\* The volume API answers with a keyword list.
VolumeResponds(lists) ==
    /\ pc = "volume"
    /\ \E keywordList \in lists :
          IF Len(keywordList) = 0
          THEN VolumeReturns([call EXCEPT !.keywordList = keywordList], NullVolume,
                             log \o <<Msg("volumeNoData", call.arg.keyword)>>)
          ELSE LET found == Found(keywordList, call.arg.keyword)
               IN  VolumeReturns([call EXCEPT !.keywordList = keywordList,
                                              !.found = found],
                                 VolumeEntry(found, call.arg.keyword), log)
    /\ UNCHANGED <<appVars, args, hashtags, smartKeywords, pool, titleRank, ranks,
                   result, probe>>

\* The request fails: the catch block logs and returns null.
VolumeFails ==
    /\ pc = "volume"
    /\ VolumeReturns(call, NullVolume, log \o <<Msg("volumeError", call.arg.keyword)>>)
    /\ UNCHANGED <<appVars, args, hashtags, smartKeywords, pool, titleRank, ranks,
                   result, probe>>

(***************************************************************************)
(* Specification SpecVolume: one call of getSearchVolume                   *)
(***************************************************************************)
\* A credential field is undefined, empty or set.
Credentials == { NullStr, <<>>, <<"key">> }

VolumeKeyword == <<"mat", "jip">>

\* '< 10', '1234', ' 7', '12a', '1,234', '' and undefined, 0 and 30
VolumeValues ==
    { Str(<<"<", " ", "1", "0">>), Str(<<"1", "2", "3", "4">>), Str(<<" ", "7">>),
      Str(<<"1", "2", "a">>), Str(<<"1", ",", "2", "3", "4">>), Str(<<>>),
      Undefined, Num(0), Num(30) }

RelKeywords == { <<"mat", "jip">>, <<"mat", " ", "jip">>, <<"bom">>, NullStr }

KeywordEntry(rel, pcCount, mobile) ==
    [relKeyword |-> rel, monthlyPcQcCnt |-> pcCount, monthlyMobileQcCnt |-> mobile]

\* The answers: no entry, one entry with any counts, or two entries told
\* apart by their counts.
KeywordLists ==
    { <<>> }
    \cup { <<KeywordEntry(r, p, m)>> : r \in RelKeywords, p \in VolumeValues,
                                      m \in VolumeValues }
    \cup { <<KeywordEntry(r1, Num(1), Num(1)), KeywordEntry(r2, Num(2), Num(2))>> :
             r1 \in RelKeywords, r2 \in RelKeywords }

InitVolume ==
    /\ call \in { VolumeCall(VolumeKeyword,
                             [licenseKey |-> l, secretKey |-> k, customerId |-> c]) :
                    l \in Credentials, k \in Credentials, c \in Credentials }
    /\ args = NullStr
    /\ pc = "callVolume"
    /\ Idle

RespondVolume == VolumeResponds(KeywordLists)

NextVolume == CallGetSearchVolume \/ Signed \/ SignFails \/ RespondVolume \/ VolumeFails

SpecVolume == InitVolume /\ [][NextVolume]_vars

(***************************************************************************)
(* Properties of getSearchVolume (SpecVolume)                              *)
(***************************************************************************)
\* C15: when the license key, the secret key or the customer id is missing or
\* empty, getSearchVolume sends no request, neither signs nor waits, and
\* returns null; it logs that the lookup is skipped, and reports no error.
C15_NoCredentialsNoRequest ==
    LET ads     == call.arg.searchAds
        Missing(x) == x = NullStr \/ Len(x) = 0
    IN  (call.fn = "getSearchVolume"
         /\ (Missing(ads.licenseKey) \/ Missing(ads.secretKey) \/ Missing(ads.customerId)))
        =>  /\ pc \in {"callVolume", "returned"}
            /\ call.requests = <<>>
            /\ inflight = NoRequest
            /\ LogOf("volumeError") = {}
            /\ pc = "returned" =>
                   /\ call.done
                   /\ call.ret = NullVolume
                   /\ log = <<Msg("volumeSkip", NullStr)>>

\* The secret key is empty, the other two fields are set.
C15_Witness ==
    /\ call.fn = "getSearchVolume"
    /\ pc = "returned"
    /\ call.arg.searchAds =
           [licenseKey |-> <<"key">>, secretKey |-> <<>>, customerId |-> <<"key">>]
    /\ call.ret = NullVolume
    /\ call.requests = <<>>

\* The number a count of the volume API stands for: 5 for a string that
\* holds '<', the number written for a string of digits (blanks around it
\* aside), the number itself for a number, 0 for anything else.
CountOf(val) ==
    LET Digits(s) == s # <<>> /\ \A i \in 1..Len(s) : s[i] \in Range(DigitChars)
        Pow10[n \in 0..8] == IF n = 0 THEN 1 ELSE 10 * Pow10[n - 1]
        Written(s) ==
            LET Term[i \in 0..Len(s)] ==
                    IF i = 0 THEN 0
                    ELSE Term[i - 1] + DigitValue(s[i]) * Pow10[Len(s) - i]
            IN  Term[Len(s)]
        Core(s) == SelectSeq(s, LAMBDA c : c # " ")
    IN  IF val.type = "number" THEN val.num
        ELSE IF val.type = "string" /\ "<" \in Range(val.chars) THEN 5
        ELSE IF val.type = "string" /\ Digits(Core(val.chars)) THEN Written(Core(val.chars))
        ELSE 0

\* C16: the PC and the mobile count returned are the counts of the entry
\* found, parsed: 5 for a string that holds '<', its number for a numeric
\* string, itself for a number, 0 otherwise; the total is their sum.
C16_VolumeParsed ==
    (call.fn = "getSearchVolume" /\ call.done /\ call.ret # NullVolume) =>
        /\ call.found \in Range(call.keywordList)
        /\ call.ret.monthlyPcQcCnt = CountOf(call.found.monthlyPcQcCnt)
        /\ call.ret.monthlyMobileQcCnt = CountOf(call.found.monthlyMobileQcCnt)
        /\ call.ret.totalVolume =
               call.ret.monthlyPcQcCnt + call.ret.monthlyMobileQcCnt

\* '< 10' on PC and '1234' on mobile give 5, 1234 and the total 1239.
C16_Witness ==
    /\ call.fn = "getSearchVolume" /\ call.done /\ call.ret # NullVolume
    /\ call.found.monthlyPcQcCnt = Str(<<"<", " ", "1", "0">>)
    /\ call.found.monthlyMobileQcCnt = Str(<<"1", "2", "3", "4">>)
    /\ call.ret.monthlyPcQcCnt = 5
    /\ call.ret.monthlyMobileQcCnt = 1234
    /\ call.ret.totalVolume = 1239

(***************************************************************************)
(* Specification SpecStrip: stripParticles applied to a word               *)
(***************************************************************************)
\* The syllables of ki-wo-deu, four particles of one syllable or part of
\* them (reul, ga, neun and ro) and eu, which with ro makes the particle eu-ro.
StripSyllables == { "ki", "wo", "deu", "reul", "ga", "neun", "eu", "ro" }

MaxWordLen == 4

StripWords == UNION { [1..k -> StripSyllables] : k \in 0..MaxWordLen }

InitStrip ==
    /\ call \in { Pending("stripParticles", w) : w \in StripWords }
    /\ args = NullStr
    /\ pc = "none"
    /\ Idle

ApplyStripParticles ==
    /\ call.fn = "stripParticles"
    /\ ~call.done
    /\ call' = [call EXCEPT !.done = TRUE, !.ret = stripParticles(call.arg)]
    /\ UNCHANGED <<appVars, args, pc, hashtags, smartKeywords, pool, titleRank, ranks, result,
                   probe, inflight, log>>

NextStrip == ApplyStripParticles

SpecStrip == InitStrip /\ [][NextStrip]_vars

(***************************************************************************)
(* Properties of stripParticles (SpecStrip)                                *)
(***************************************************************************)
\* The word without its last n characters.
DropLast(word, n) == [i \in 1..(Len(word) - n) |-> word[i]]

\* The particles that may be taken off a word: proper suffixes of it that
\* leave at least two characters.
Removable(word) ==
    { k \in DOMAIN PARTICLES :
        LET n == Len(PARTICLES[k])
        IN  /\ n < Len(word)
            /\ Len(word) - n >= 2
            /\ \A i \in 1..n : word[Len(word) - n + i] = PARTICLES[k][i] }

\* C19: stripParticles takes off the word the first particle of the list
\* that is a proper suffix of it and leaves at least two characters, and
\* nothing else; without such a particle the word is returned as it is. The
\* result is a prefix of the word, and has two characters or more when the
\* word has. ki-wo-deu-reul gives ki-wo-deu, and ga gives ga.
C19_OneParticleStripped ==
    (call.fn = "stripParticles" /\ call.done) =>
        LET word == call.arg
            R    == Removable(word)
        IN  /\ R = {} => call.ret = word
            /\ R # {} =>
                   LET first == CHOOSE k \in R : \A j \in R : k <= j
                   IN  call.ret = DropLast(word, Len(PARTICLES[first]))
            /\ \E n \in 0..Len(word) : call.ret = DropLast(word, n)
            /\ Len(word) >= 2 => Len(call.ret) >= 2
            /\ word = <<"ki", "wo", "deu", "reul">> => call.ret = <<"ki", "wo", "deu">>
            /\ word = <<"ga">> => call.ret = <<"ga">>

\* eu-ro is a suffix of ki-wo-eu-ro and comes before ro in the list: it is
\* the particle taken off, and ki-wo is left.
C19_Witness ==
    /\ call.fn = "stripParticles" /\ call.done
    /\ call.arg = <<"ki", "wo", "eu", "ro">>
    /\ call.ret = <<"ki", "wo">>

(***************************************************************************)
(* Specification SpecNoun: extractSmartKeywords applied to texts whose     *)
(* nouns repeat                                                            *)
(***************************************************************************)
\* mat-jip-eul is mat-jip with its particle.
NounTitleWords == { <<"mat", "jip", "eul">>, <<"gang", "nam">> }

NounContentWords == { <<"mat", "jip">>, <<"bom", "ot">>, <<"kkot", "ot">> }

MaxNounTitleWords == 2

MaxNounContentWords == 4

NounTitles == { Join(ws, <<" ">>) : ws \in WordSeqs(NounTitleWords, MaxNounTitleWords) }

NounContents ==
    { Join(ws, <<" ">>) : ws \in WordSeqs(NounContentWords, MaxNounContentWords) }

\* No tag, a tag that is a noun of the contents, four tags and five tags.
NounTagLists ==
    { <<>>, << <<"bom", "ot">> >>,
      << <<"x">>, <<"y">>, <<"7">>, <<"bom">> >>,
      << <<"x">>, <<"y">>, <<"7">>, <<"bom">>, <<"ot">> >> }

InitNoun ==
    /\ call \in { Pending("extractSmartKeywords",
                          [title |-> t, content |-> c, hashtags |-> h]) :
                    t \in NounTitles, c \in NounContents, h \in NounTagLists }
    /\ args = NullStr
    /\ pc = "none"
    /\ Idle

NextNoun == ApplySmartKeywords

SpecNoun == InitNoun /\ [][NextNoun]_vars

(***************************************************************************)
(* Properties of the noun scoring (SpecNoun)                               *)
(***************************************************************************)
\* The words of a text with their particles taken off, in the order of the
\* text.
Stems(text) ==
    LET words == HangulWords(text, 1)
    IN  [i \in 1..Len(words) |-> stripParticles(words[i])]

\* How often a sequence of words holds the word w, and where it holds it
\* first.
Frequency(stems, w) == Cardinality({ i \in DOMAIN stems : stems[i] = w })

FirstAt(stems, w) ==
    CHOOSE i \in DOMAIN stems : stems[i] = w /\ \A j \in 1..(i - 1) : stems[j] # w

\* The nouns among the words.
NounsOf(stems) == { w \in Range(stems) : Len(w) >= 2 /\ w \notin STOPWORDS }

\* The nouns with a score: those of the title, and those of the content
\* alone that it holds twice or more.
ScoredOf(titleStems, contentStems) ==
    NounsOf(titleStems)
    \cup { w \in NounsOf(contentStems) : Frequency(contentStems, w) >= 2 }

ScoreOf(titleStems, contentStems, w) ==
    IF w \in NounsOf(titleStems)
    THEN Frequency(titleStems, w) * 3 + Frequency(contentStems, w)
    ELSE Frequency(contentStems, w)

\* The order of the scored nouns: the higher score first; of two nouns of
\* equal score a title noun before a noun of the content alone, and
\* otherwise the one that occurs first.
ComesBefore(titleStems, contentStems, a, b) ==
    LET sa == ScoreOf(titleStems, contentStems, a)
        sb == ScoreOf(titleStems, contentStems, b)
        ta == a \in NounsOf(titleStems)
        tb == b \in NounsOf(titleStems)
    IN  \/ sa > sb
        \/ /\ sa = sb
           /\ \/ ta /\ ~tb
              \/ ta /\ tb /\ FirstAt(titleStems, a) < FirstAt(titleStems, b)
              \/ ~ta /\ ~tb /\ FirstAt(contentStems, a) < FirstAt(contentStems, b)

\* C20: when the distinct hashtags are fewer than 5, the keywords after them
\* are the scored nouns that are no hashtag, best first, as many as fit; a
\* title noun scores 3 * its title frequency + its content frequency, a noun
\* of the content alone is scored, with its content frequency, only when
\* that is 2 or more; equal scores keep title nouns first and otherwise the
\* order of first occurrence; a title n-gram appears only when every scored
\* noun is among the keywords.
C20_NounsByScore ==
    (call.fn = "extractSmartKeywords" /\ call.done
     /\ Cardinality(Range(call.arg.hashtags)) < SMART_CAP) =>
        LET title   == Stems(call.arg.title)
            content == Stems(call.arg.content)
            ret     == call.ret
            h       == Cardinality(Range(call.arg.hashtags))
            fresh   == ScoredOf(title, content) \ Range(call.arg.hashtags)
            k       == Min(SMART_CAP - h, Cardinality(fresh))
            placed  == { ret[i] : i \in (h + 1)..(h + k) }
        IN  /\ Len(ret) >= h + k
            /\ \A i \in 1..h : ret[i] \in Range(call.arg.hashtags)
            /\ placed \subseteq fresh
            /\ \A i, j \in (h + 1)..(h + k) :
                   i < j => ComesBefore(title, content, ret[i], ret[j])
            /\ \A w \in fresh \ placed :
                   \A i \in (h + 1)..(h + k) : ComesBefore(title, content, ret[i], w)
            /\ \A i \in (h + k + 1)..Len(ret) :
                   /\ fresh \subseteq placed
                   /\ ret[i] \in Range(extractTitleNgrams(call.arg.title))

\* The title 'mat-jip-eul gang-nam' and the content 'bom-ot' four times: the
\* noun of the content alone scores 4 and comes before the title nouns, which
\* score 3 each and keep the order of the title; the n-gram follows them.
C20_Witness ==
    /\ call.fn = "extractSmartKeywords" /\ call.done
    /\ call.arg.hashtags = <<>>
    /\ call.arg.title = <<"mat", "jip", "eul", " ", "gang", "nam">>
    /\ call.arg.content = Join([i \in 1..4 |-> <<"bom", "ot">>], <<" ">>)
    /\ call.ret = << <<"bom", "ot">>, <<"mat", "jip">>, <<"gang", "nam">>,
                     <<"mat", "jip", " ", "gang", "nam">> >>

(***************************************************************************)
(* Properties of the progress log (Spec)                                   *)
(***************************************************************************)
\* The j-th position of a set of positions.
Nth(S, j) == CHOOSE i \in S : Cardinality({ k \in S : k <= i }) = j

\* The messages of the probes' catch blocks.
ProbeErrors == LogOf("rankError")

\* C21: the log of a run of analyzeBlogPosts opens with the hashtag, the
\* smart-keyword and the pool message, and every message of the title probe
\* comes after them; the j-th 'querying' message names pool[j] and comes
\* before the messages of that keyword's probe; the j-th result message
\* reports pool[j] with the rank pushed for it, follows the j-th 'querying'
\* message and comes before the next one; the final-keyword message is
\* logged once, when the run returns, and is then the last message.
C21_LogInPipelineOrder ==
    /\ pc \in {"title", "pool", "done"} =>
           /\ Len(log) >= 3
           /\ log[1] = Msg("hashtags", hashtags)
           /\ log[2] = Msg("smartKeywords", smartKeywords)
           /\ log[3] = Msg("pool", Len(pool))
           /\ \A i \in TitleReturns \cup ProbeErrors \cup ProbeStarts : i > 3
    /\ pc = "title" =>
           \A i \in 4..Len(log) : log[i] = Msg("rankError", args.title)
    /\ \A j \in 1..Cardinality(ProbeStarts) :
           LET q == Nth(ProbeStarts, j)
           IN  /\ log[q] = Msg("querying", pool[j])
               /\ \A t \in TitleReturns : t < q
               /\ j > 1 => Cardinality(ProbeReturns) >= j - 1
                           /\ Nth(ProbeReturns, j - 1) < q
    /\ \A j \in 1..Cardinality(ProbeReturns) :
           LET r == Nth(ProbeReturns, j)
           IN  /\ j <= Len(ranks) /\ j <= Cardinality(ProbeStarts)
               /\ log[r] = RankLog(pool[j], ranks[j].rank)
               /\ Nth(ProbeStarts, j) < r
               /\ \A i \in (Nth(ProbeStarts, j) + 1)..(r - 1) :
                      log[i] = Msg("rankError", pool[j])
    /\ pc = "pool" =>
           LET q == Nth(ProbeStarts, Cardinality(ProbeStarts))
           IN  /\ log[q].arg = probe.keyword
               /\ \A i \in (q + 1)..Len(log) : log[i] = Msg("rankError", probe.keyword)
    /\ pc = "done" =>
           /\ Cardinality(ProbeStarts) = Len(pool)
           /\ Cardinality(ProbeReturns) = Len(pool)
           /\ LogOf("final") = {Len(log)}
           /\ Last(log) = Msg("final", result.finalKeyword)
    /\ pc # "done" => LogOf("final") = {}

\* A run over a pool of three keywords has returned; the best keyword was
\* logged, and the final-keyword message closes the log.
C21_Witness ==
    /\ pc = "done"
    /\ Len(pool) = 3
    /\ LogOf("best") # {}
    /\ ProbeErrors # {}
    /\ Last(log).kind = "final"

(***************************************************************************)
(* Properties of the local store (SpecSession)                             *)
(***************************************************************************)
\* The step saves an entry, presses 'clear history'.
SaveStep ==
    /\ Len(history') > Len(history)
    /\ history'[Len(history) + 1].e = "save"

ClearStep ==
    /\ Len(history') > Len(history)
    /\ history'[Len(history) + 1].e = "clear"

\* The list stored: the entries the text under the key holds, none when the
\* key is absent or its text is no list.
StoredList == IF store.raw = "json" THEN store.value ELSE <<>>

IsPrefix(s, t) == Len(s) <= Len(t) /\ SubSeq(t, 1, Len(s)) = s

\* C22 as stated: after every save the stored list is the list stored before
\* with the entry added at its end.
C22_SaveAppends ==
    [][SaveStep => StoredList' = Append(StoredList, Last(analysisResults'))]_vars

\* C22, amended: a save whose write succeeds leaves the list stored before
\* with the entry added at its end, a save whose write fails leaves the store
\* as it was; so the list stored before a step is a prefix of the list stored
\* after it, unless the step is a press of 'clear history'.
C22_SaveAppendsOrKeeps ==
    [][ /\ SaveStep =>
            LET ev == history'[Len(history) + 1].arg
            IN  IF ev.writeFailed THEN store' = store
                ELSE StoredList' = Append(StoredList, Last(analysisResults'))
        /\ ~ClearStep => IsPrefix(StoredList, StoredList')
        /\ ~SaveStep /\ ~ClearStep => store' = store ]_vars

\* The second post of a batch is saved after the entry of an earlier session
\* and the first post: the store holds the three entries in that order.
C22_Witness ==
    /\ Len(StoredList) = 3
    /\ StoredList[1] = OldEntry
    /\ StoredList = analysisResults
    /\ { k \in 1..Len(history) : history[k].e = "save" /\ history[k].arg.writeFailed } = {}

(***************************************************************************)
(* Properties of the selection (Spec)                                      *)
(***************************************************************************)
\* Ranks a title probe may return: none, those of the first page and the one
\* after, and the last.
TitleRanks == {NullRank} \cup 1..(PAGE_SIZE + 1) \cup {MAX_RESULTS}

\* C23: the final keyword of a result is its best keyword, and a run that
\* differs from this one in the rank of the title alone (same pool, same
\* rank for every keyword) returns the same best keyword, best rank, other
\* good keywords and final keyword.
C23_SelectionIgnoresTitle ==
    pc = "done" =>
        /\ result.finalKeyword = result.bestKeyword
        /\ result.titleRank = titleRank
        /\ \A t \in TitleRanks :
               LET other == Selection(t, result.ranks).result
               IN  /\ other.titleRank = t
                   /\ other.pool = result.pool
                   /\ other.ranks = result.ranks
                   /\ other.bestKeyword = result.bestKeyword
                   /\ other.bestRank = result.bestRank
                   /\ other.otherGoodKeywords = result.otherGoodKeywords
                   /\ other.finalKeyword = result.finalKeyword

\* The title ranks first, the best keyword of the pool second: the keyword is
\* selected all the same.
C23_Witness ==
    /\ pc = "done"
    /\ result.titleRank = 1
    /\ result.bestRank = 2
    /\ result.finalKeyword = result.bestKeyword
    /\ result.bestKeyword \in Range(pool)

(***************************************************************************)
(* Specification SpecAppLive: SpecApp with the calls that carry a timeout  *)
(* settling                                                                *)
(*                                                                         *)
(* axios is given a timeout for the list of recent posts (15 s), the page  *)
(* of a post (20 s) and a search request (10 s): each of these calls is    *)
(* answered or fails.  The pause is a timer, and analyzeBlogPosts returns  *)
(* by itself.  The fetch of saveToGoogleSheet is given neither a timeout   *)
(* nor an abort signal: nothing makes it settle.                           *)
(***************************************************************************)
SpecAppLive ==
    /\ InitApp
    /\ [][NextApp]_vars
    /\ WF_vars(ListReturns)
    /\ WF_vars(FetchResponds \/ FetchFails)
    /\ WF_vars(RespondApp \/ Fail)
    /\ WF_vars(AnalysisReturns)
    /\ WF_vars(PauseElapsed)

\* C24: once handleStart has set isAnalyzing, it is reset: no collaborator
\* that never answers keeps a batch from finishing.
C24_BatchFinishes == isAnalyzing ~> ~isAnalyzing

(***************************************************************************)
(* Specification SpecReentry: SpecApp with a second invocation of          *)
(* handleStart while the first is running                                  *)
(*                                                                         *)
(* handleStart tests the isAnalyzing of the render that created it, and    *)
(* the button and the input are disabled by the same value.  The second    *)
(* invocation is followed to the end of its first content fetch; the       *)
(* analysis it enters then shares the search API with the first run.       *)
(***************************************************************************)
\* React renders the App with the current state: the button, the input and
\* the handleStart bound to them see the new isAnalyzing.
Render ==
    /\ rendered # isAnalyzing
    /\ rendered' = isAnalyzing
    /\ UNCHANGED <<sheetPosts, second, config, isAnalyzing, status, analysisResults, store, sheet, handler,
                   run, history, args, pc, hashtags, smartKeywords, pool, titleRank, ranks,
                   result, probe, inflight, log, call>>

\* The first invocation of handleStart has not returned.
FirstRunning == handler.pc \in {"listing", "single", "batch", "pausing"}

\* handleStart is invoked again, with the closure of the last render, while
\* the first invocation is running: up to its first await.
HandleStartAgain ==
    /\ FirstRunning
    /\ second.pc = "none"
    /\ IF rendered
       THEN /\ second' = [second EXCEPT !.pc = "returned"]
            /\ UNCHANGED <<isAnalyzing, status, log, history>>
       ELSE /\ isAnalyzing' = TRUE
            /\ IF handler.input # <<>> /\ IsPostUrl(handler.input)
               THEN /\ second' = [pc |-> "fetching", url |-> handler.input]
                    /\ status' = "parsing"
                    /\ log' = log \o <<Msg("loading", NullStr)>>
                    /\ history' = history \o <<Ev("run", handler.input)>>
               ELSE /\ second' = [pc |-> "listing", url |-> NullStr]
                    /\ log' = log \o <<Msg("listing",
                                          IF handler.input = <<>> THEN DEFAULT_BLOG_ID
                                          ELSE handler.input)>>
                    /\ UNCHANGED <<status, history>>
    /\ UNCHANGED <<sheetPosts, rendered, config, analysisResults, store, sheet, handler, run, args, pc,
                   hashtags, smartKeywords, pool, titleRank, ranks, result, probe, inflight,
                   call>>

\* fetchRecentBlogPosts returns to the second invocation: without a post it
\* resets isAnalyzing and returns, else it starts runAnalysis for the first.
SecondListReturns ==
    /\ second.pc = "listing"
    /\ \E n \in 0..1 :
          LET blogId == IF handler.input = <<>> THEN DEFAULT_BLOG_ID ELSE handler.input
              posts  == RecentPosts(blogId, n)
          IN  IF n = 0
              THEN /\ second' = [second EXCEPT !.pc = "returned"]
                   /\ isAnalyzing' = FALSE
                   /\ log' = log \o <<Msg("listed", n)>>
                   /\ UNCHANGED <<status, history>>
              ELSE /\ second' = [pc |-> "fetching", url |-> posts[1].link]
                   /\ isAnalyzing' = isAnalyzing
                   /\ status' = "parsing"
                   /\ log' = log \o <<Msg("listed", n), Msg("loading", NullStr)>>
                   /\ history' = history \o <<Ev("run", posts[1].link)>>
    /\ UNCHANGED <<sheetPosts, rendered, config, analysisResults, store, sheet, handler, run, args, pc,
                   hashtags, smartKeywords, pool, titleRank, ranks, result, probe, inflight,
                   call>>

\* The content fetch of the second invocation settles: the page arrives and
\* its runAnalysis enters analyzeBlogPosts, or the fetch fails, the catch
\* block of runAnalysis runs and handleStart, its only post done, resets
\* isAnalyzing in its finally block.
SecondFetchSettles ==
    /\ second.pc = "fetching"
    /\ \/ /\ second' = [second EXCEPT !.pc = "analyzing"]
          /\ status' = "analyzing"
          /\ log' = log \o <<Msg("parsed", PageOf(second.url).title)>>
          /\ history' = history \o <<Ev("analyze", NullStr)>>
          /\ UNCHANGED isAnalyzing
       \/ /\ second' = [second EXCEPT !.pc = "returned"]
          /\ status' = "error"
          /\ log' = log \o <<Msg("analysisError", NullStr)>>
          /\ history' = history \o <<Ev("fetchFailed", NullStr), Ev("end", "error")>>
          /\ isAnalyzing' = FALSE
    /\ UNCHANGED <<sheetPosts, rendered, config, analysisResults, store, sheet, handler, run, args, pc,
                   hashtags, smartKeywords, pool, titleRank, ranks, result, probe, inflight,
                   call>>

NextReentry ==
    \/ NextApp
    \/ Render
    \/ HandleStartAgain
    \/ SecondListReturns
    \/ SecondFetchSettles

SpecReentry == InitApp /\ [][NextReentry]_vars

\* C25: a second invocation of handleStart while the first is running starts
\* nothing, whether the App was rendered with the new isAnalyzing or not: it
\* neither lists posts nor starts a run, and a run of the first invocation is
\* the only one in flight.
C25_SecondStartIgnored ==
    /\ second.pc \in {"none", "returned"}
    /\ second.pc = "returned" => second.url = NullStr
    /\ \A k \in 1..Len(history) :
           history[k].e = "run" =>
               Cardinality({ j \in 1..(k - 1) : history[j].e = "run" })
                   = Cardinality({ j \in 1..(k - 1) : history[j].e = "end" })

(***************************************************************************)
(* fetchAndParseBlog: the blog id and the post number of a URL             *)
(***************************************************************************)
\* \d+ : a segment of digits
IsNumber(seg) == seg \in Range(PostNos)

NoPostRef == [matched |-> FALSE, id |-> NullStr, no |-> NullStr]

\* blogUrl.match(/blog\.naver\.com\/([^/?#]+)\/(\d+)/) ||
\* blogUrl.match(/([^/?#.]+)\.blog\.naver\.com\/(\d+)/): the id and the number
\* of the leftmost match of the first pattern, else of the second.
PostRef(blogUrl) ==
    LET path == { i \in 1..(Len(blogUrl) - 3) :
                    /\ blogUrl[i] = "blog.naver.com/"
                    /\ blogUrl[i + 1] \notin {"/", "?", "#"}
                    /\ blogUrl[i + 2] = "/"
                    /\ IsNumber(blogUrl[i + 3]) }
        host == { i \in 1..(Len(blogUrl) - 3) :
                    /\ blogUrl[i] \notin {"/", "?", "#", ".", "https://", "blog.naver.com/"}
                    /\ blogUrl[i + 1] = "."
                    /\ blogUrl[i + 2] = "blog.naver.com/"
                    /\ IsNumber(blogUrl[i + 3]) }
        First(S) == CHOOSE i \in S : \A k \in S : i <= k
    IN  IF path # {}
        THEN [matched |-> TRUE, id |-> <<blogUrl[First(path) + 1]>>,
              no |-> blogUrl[First(path) + 3]]
        ELSE IF host # {}
        THEN [matched |-> TRUE, id |-> <<blogUrl[First(host)]>>,
              no |-> blogUrl[First(host) + 3]]
        ELSE NoPostRef

\* https://{id}.blog.naver.com/{postNo}
HostLink(id, k) == <<"https://">> \o id \o <<".", "blog.naver.com/", PostNos[k]>>

\* https://m.blog.naver.com/{id}/{postNo}
MobileLink(id, k) == <<"https://", "m", ".", "blog.naver.com/">> \o id \o <<"/", PostNos[k]>>

(***************************************************************************)
(* Specification SpecUrl: the start button pressed with the URL of a post  *)
(* in the search input                                                     *)
(***************************************************************************)
UrlInputs ==
    { PostLink(<<"k">>, 5), MobileLink(<<"k">>, 5), HostLink(<<"k">>, 5),
      PostLink(<<"k">>, 1), HostLink(<<"k">>, 1) }

InitUrl ==
    /\ config \in Configs \ {NoConfig}
    /\ isAnalyzing = FALSE
    /\ status = "idle"
    /\ store \in { AbsentStore, CorruptStore }
    /\ analysisResults = loadResultsFromLocal(store)
    /\ sheet = <<>>
    /\ handler \in { [pc |-> "ready", input |-> in, posts |-> <<>>, i |-> 0] :
                       in \in UrlInputs }
    /\ run = NoRun
    /\ history = <<>>
    /\ rendered = FALSE
    /\ second = NoSecond
    /\ sheetPosts = <<>>
    /\ args = NullStr
    /\ pc = "none"
    /\ call = NoCall
    /\ NoAnalysis

NextUrl ==
    \/ HandleStart
    \/ FetchResponds
    \/ FetchFails
    \/ RespondApp
    \/ Fail
    \/ AnalysisReturns
    \/ SheetResponds
    \/ SheetFails

SpecUrl == InitUrl /\ [][NextUrl]_vars

\* C26: when the content fetcher finds a blog id and a post number in the
\* URL of a run, the blog id that runAnalysis hands to analyzeBlogPosts, and
\* that every probe searches for, is that blog id.
C26_SameBlogId ==
    (run.pc \in {"fetching", "analyzing", "posting"} /\ PostRef(run.url).matched) =>
        /\ run.blogId = PostRef(run.url).id
        /\ run.pc = "analyzing" => args.blogId = PostRef(run.url).id
                                   /\ probe.blogId = PostRef(run.url).id

(***************************************************************************)
(* Specification SpecPool: the preprocessing of analyzeBlogPosts for       *)
(* bodies with up to MaxTags hashtags                                      *)
(***************************************************************************)
\* What follows the hashtags in a body: nothing, or a noun twice.
BodyEnds == { <<>>, <<" ", "bom", "ot", " ", "bom", "ot">> }

PoolPosts ==
    { [title |-> t, content |-> Retag(h, <<" ">>) \o e, blogId |-> <<"k">>] :
        t \in NounTitles, h \in HashtagLists, e \in BodyEnds }

InitPool ==
    /\ args \in PoolPosts
    /\ pc = "start"
    /\ call = NoCall
    /\ Idle

NextPool == StartAnalysis

SpecPool == InitPool /\ [][NextPool]_vars

\* C27: the pool of analyzeBlogPosts is its smart keywords when the body has
\* at most 5 distinct hashtags, and its hashtags when it has more; its
\* length, the number of pool probes of the post, is the larger of the two
\* lengths and at most the larger of 5 and the number of hashtags.
C27_PoolIsOneInput ==
    pc = "title" =>
        LET h  == Cardinality(Range(hashtags))
            s  == Len(smartKeywords)
            Larger(a, b) == IF a >= b THEN a ELSE b
        IN  /\ h = Len(hashtags)
            /\ h <= 5 => pool = smartKeywords
            /\ h > 5 => pool = hashtags
            /\ Len(pool) = Larger(h, s)
            /\ Len(pool) <= Larger(5, h)

\* Six hashtags in the body, a noun in the title: the pool is the six
\* hashtags, the smart keywords are the first five of them.
C27_Witness ==
    /\ pc = "title"
    /\ Len(hashtags) = 6
    /\ Len(smartKeywords) = 5
    /\ pool = hashtags
    /\ args.title # <<>>

(***************************************************************************)
(* Properties of the list on the screen (SpecSession)                      *)
(***************************************************************************)
\* C28 as stated: the list on the screen is the list stored.
C28_ScreenEqualsStore == analysisResults = StoredList

\* The saves since the last press of 'clear history' (since the start of the
\* session without one), in order: the positions of their events.
SavesSinceClear ==
    LET clears == { k \in 1..Len(history) : history[k].e = "clear" }
        from   == IF clears = {} THEN 0 ELSE CHOOSE k \in clears : \A j \in clears : j <= k
    IN  SelectSeq([k \in 1..Len(history) |-> k],
                  LAMBDA k : k > from /\ history[k].e = "save")

\* C28, amended: the list on the screen starts as the list loaded, every
\* finished analysis adds its entry to it, and 'clear history' empties it and
\* the store; the list stored is the list on the screen without the entries
\* whose write failed since the last clearing, so the two are equal as long
\* as no write has failed.
C28_StoreIsScreenWithoutFailedWrites ==
    LET saves  == SavesSinceClear
        n      == Len(analysisResults)
        base   == n - Len(saves)
        kept   == SelectSeq([k \in 1..Len(saves) |-> k],
                            LAMBDA k : ~history[saves[k]].arg.writeFailed)
    IN  /\ base >= 0
        /\ StoredList = SubSeq(analysisResults, 1, base)
                        \o [j \in 1..Len(kept) |-> analysisResults[base + kept[j]]]
        /\ Len(kept) = Len(saves) => analysisResults = StoredList

\* After a press of 'clear history' the write of the first entry fails and
\* that of the second succeeds: the screen lists both, the store the second.
C28_Witness ==
    /\ \E k \in 1..Len(history) : history[k].e = "clear"
    /\ Len(analysisResults) = 2
    /\ Len(StoredList) = 1
    /\ StoredList[1] = analysisResults[2]

(***************************************************************************)
(* addLog and saveToGoogleSheet                                            *)
(***************************************************************************)
\* A call saveToGoogleSheet(data, url, onLog, type) that has sent its request:
\* data is a log line or a row, onLog is addLog or the empty function.
SheetPost(data, type, onLog) ==
    [data |-> data, type |-> type, onLog |-> onLog, state |-> "sent"]

\* Mutant of ForwardLog: the line is sent as runAnalysis sends a row, with
\* addLog for a logger.
ForwardLogAsRow(msg) == SheetPost([line |-> msg], "analysis", "addLog")

\* addLog: saveToGoogleSheet({ time, message }, appsScriptUrl, () => { }, 'log')
ForwardLog(msg) == SheetPost([line |-> msg], "log", "noop")

\* What addLog(msg) makes of the log list and of the calls under way: one
\* entry more, and with an Apps Script URL one call more.
addLog(msg, lg, posts) ==
    [ log   |-> Append(lg, msg),
      posts |-> IF config.googleAppsScriptUrl # NullStr /\ config.googleAppsScriptUrl # <<>>
                THEN Append(posts, ForwardLog(msg))
                ELSE posts ]

\* The messages saveToGoogleSheet hands to its onLog when its request is
\* answered (ok) or fails.
SheetLog(type, ok) ==
    IF type # "analysis" THEN <<>>
    ELSE IF ok THEN <<Msg("sheetSent", NullStr)>>
    ELSE <<Msg("sheetError", NullStr)>>

\* The most lines the App logs by itself.
MaxLogs == 3

LogLines == { Msg("loading", NullStr), Msg("final", NullStr) }

\* A step of the App calls addLog.
AddLog ==
    /\ Len(log) < MaxLogs
    /\ \E msg \in LogLines :
          LET a == addLog(msg, log, sheetPosts)
          IN  log' = a.log /\ sheetPosts' = a.posts
    /\ UNCHANGED <<rendered, second, config, isAnalyzing, status, analysisResults, store,
                   sheet, handler, run, history, args, pc, hashtags, smartKeywords, pool,
                   titleRank, ranks, result, probe, inflight, call>>

\* runAnalysis posts a row: saveToGoogleSheet(row, appsScriptUrl, addLog,
\* 'analysis').
PostRow ==
    /\ config.googleAppsScriptUrl # NullStr
    /\ sheet = <<>>
    /\ sheet' = <<"row">>
    /\ sheetPosts' = Append(sheetPosts, SheetPost([row |-> "row"], "analysis", "addLog"))
    /\ UNCHANGED <<rendered, second, config, isAnalyzing, status, analysisResults, store,
                   handler, run, history, args, pc, hashtags, smartKeywords, pool,
                   titleRank, ranks, result, probe, inflight, log, call>>

\* The request of a call is answered or fails: saveToGoogleSheet hands its
\* messages to its onLog and returns.
SheetPostSettles ==
    \E i \in 1..Len(sheetPosts), ok \in BOOLEAN :
        /\ sheetPosts[i].state = "sent"
        /\ LET post    == sheetPosts[i]
               settled == [sheetPosts EXCEPT ![i].state = IF ok THEN "answered" ELSE "failed"]
               msgs    == SheetLog(post.type, ok)
           IN  IF post.onLog = "addLog" /\ msgs # <<>>
               THEN LET a == addLog(msgs[1], log, settled)
                    IN  log' = a.log /\ sheetPosts' = a.posts
               ELSE log' = log /\ sheetPosts' = settled
        /\ UNCHANGED <<rendered, second, config, isAnalyzing, status, analysisResults, store,
                       sheet, handler, run, history, args, pc, hashtags, smartKeywords, pool,
                       titleRank, ranks, result, probe, inflight, call>>

(***************************************************************************)
(* Specification SpecLog: the App logs lines and posts a row               *)
(***************************************************************************)
InitLog ==
    /\ config \in Configs
    /\ isAnalyzing = FALSE
    /\ status = "idle"
    /\ store = AbsentStore
    /\ analysisResults = <<>>
    /\ sheet = <<>>
    /\ handler = NoHandler
    /\ run = NoRun
    /\ history = <<>>
    /\ rendered = FALSE
    /\ second = NoSecond
    /\ sheetPosts = <<>>
    /\ args = NullStr
    /\ pc = "none"
    /\ call = NoCall
    /\ NoAnalysis

NextLog == AddLog \/ PostRow \/ SheetPostSettles

SpecLog == InitLog /\ [][NextLog]_vars

\* The calls that forward a log line.
LogPosts(posts) == { i \in 1..Len(posts) : "line" \in DOMAIN posts[i].data }

\* C29: a step adds at most one line to the log list, and with a line at most
\* one call that forwards a line: exactly one when an Apps Script URL is
\* configured, for that line; the step in which the request of such a call is
\* answered or fails adds no line and no call.  So the calls that forward a
\* line are as many as the lines, or none.
C29_LogDoesNotFeedBack ==
    /\ [][ /\ Len(log') <= Len(log) + 1
           /\ Cardinality(LogPosts(sheetPosts'))
                = Cardinality(LogPosts(sheetPosts)) + (Len(log') - Len(log))
                    * (IF config.googleAppsScriptUrl # NullStr THEN 1 ELSE 0)
           /\ Len(log') = Len(log) + 1 /\ config.googleAppsScriptUrl # NullStr =>
                  sheetPosts'[Len(sheetPosts')].data = [line |-> log'[Len(log')]]
           /\ (\E i \in LogPosts(sheetPosts) :
                   sheetPosts[i].state = "sent" /\ sheetPosts'[i].state # "sent") =>
                  /\ log' = log
                  /\ Len(sheetPosts') = Len(sheetPosts) ]_vars
    /\ [](Cardinality(LogPosts(sheetPosts)) \in {0, Len(log)})

\* Three lines were logged and forwarded, the requests of all three calls have
\* failed or were answered, and the log still has the three lines.
C29_Witness ==
    /\ Len(log) = 3
    /\ Cardinality(LogPosts(sheetPosts)) = 3
    /\ \A i \in 1..Len(sheetPosts) : sheetPosts[i].state # "sent"
    /\ \E i \in 1..Len(sheetPosts) : sheetPosts[i].state = "failed"
    /\ sheet = <<>>

(***************************************************************************)
(* Specification SpecEnrich: analyzeBlogPosts called with and without the  *)
(* credentials of the volume API                                           *)
(***************************************************************************)
\* config.searchAds with its three fields set, and with none.
AdsConfigs ==
    { [licenseKey |-> k, secretKey |-> k, customerId |-> k] : k \in { <<"key">>, <<>> } }

InitEnrich ==
    /\ args \in { [title |-> p.title, content |-> p.content, blogId |-> <<"k">>,
                   config |-> [searchAds |-> a]] : p \in Posts, a \in AdsConfigs }
    /\ pc = "start"
    /\ call = NoCall
    /\ Idle

NextEnrich == StartAnalysis \/ RespondApp \/ Fail

SpecEnrich == InitEnrich /\ [][NextEnrich]_vars

\* C30: whatever the credentials of the volume API, a run of
\* analyzeBlogPosts sends search requests only, never enters getSearchVolume,
\* and returns a result whose searchVolume is null.
C30_NoEnrichment ==
    /\ pc \notin {"callVolume", "signing", "volume"}
    /\ call = NoCall
    /\ inflight # NoRequest => inflight = SearchRequest(probe.keyword, inflight.start)
    /\ \A i \in 1..Len(probe.reqs) :
           /\ DOMAIN probe.reqs[i] = DOMAIN NoRequest
           /\ probe.reqs[i].query = probe.keyword
    /\ pc = "done" => result.searchVolume = NullRank

\* The three credentials are set, a keyword was selected, and the result has
\* no search volume.
C30_Witness ==
    /\ pc = "done"
    /\ ~CredentialsIncomplete(args.config.searchAds)
    /\ result.finalKeyword # NullStr
    /\ result.searchVolume = NullRank

====
